---------------------------- MODULE Spec2Model ----------------------------
(***************************************************************************)
(* Model of the schedule store and the soft scheduler of src/schedules.py  *)
(* (create_schedule, update_schedule_active, delete_schedule, _run_action, *)
(* run_due_schedules) together with the pieces of src/helpers.py and       *)
(* src/tuya_api_mongo.py they rest on.                                     *)
(*                                                                         *)
(* Time is counted in whole minutes.  A Python datetime is a record        *)
(*   [k, aware, wall, off]                                                 *)
(* where wall is the wall-clock reading in minutes since 1970-01-01 00:00  *)
(* of the value's own frame and off its UTC offset (aware values only).    *)
(* A BSON value kept by MongoDB is [k, utc]: a date is an instant in UTC.  *)
(***************************************************************************)
EXTENDS Integers, Sequences, FiniteSets, TLC

VARIABLES
    store,        \* schedules collection: _id -> document
    nextId,       \* next _id the collection hands out
    now,          \* the clock: local (UTC+6) wall minutes since 1970-01-01
    tz_aware,     \* MongoClient option tz_aware (default FALSE)
    sys_offset,   \* UTC offset of the host's system time zone, in minutes
    pc,           \* per run_due_schedules invocation: position in the code
    docs,         \* per invocation: the list read by find({"is_active": True})
    idx,          \* per invocation: index of the document the loop is at
    now_local,    \* per invocation: datetime.now(dhaka_tz) taken at its start
    res,          \* per invocation: result of the command of the current doc
    scan_result,  \* per invocation: how its last completed call ended
    inactive_at_start, \* per invocation: _ids that were inactive when it started
    trail,        \* per invocation, history: commands attempted and failed, overlap
    fires,        \* history: _id -> local day of the firing scan -> commands attempted
    logs,         \* schedule_logs collection: schedule _id -> results logged, in order
    last_call,    \* last operator call: its kind, the store's state, its result
    readings,     \* readings_<device_id> collections: device -> documents
    view          \* the dashboard computation last made: its inputs and result

vars == <<store, nextId, now, tz_aware, sys_offset, pc, docs, idx, now_local,
          res, scan_result, inactive_at_start, trail, fires, logs, last_call,
          readings, view>>

scanVars == <<pc, docs, idx, now_local, res, scan_result, inactive_at_start, trail>>

-----------------------------------------------------------------------------
(* Bounds of the model *)

\* number of schedule documents ever inserted
MaxSchedules == 2
\* number of local calendar days the clock runs over
HorizonDays == 2
\* scans stop being started once a schedule has this many commands on one day
MaxFiresPerDay == 2
\* number of clock ticks while scans overlap and the operator is at work
RaceTicks == 1

\* how far around each tariff threshold the billed energies spread
Near == 1

\* rows of a data frame handed to _units_between
MaxRows == 3

\* readings stored per device
MaxReadings == 2

-----------------------------------------------------------------------------
(* Calendar and datetime arithmetic (Python datetime semantics) *)

MinutesPerDay == 24 * 60

\* helpers.py: dhaka_tz = timezone(timedelta(hours=6))
dhaka_tz == 6 * 60

\* proleptic Gregorian day number of y-m-d, counted from 1970-01-01
DaysFromCivil(y, m, d) ==
    LET yy  == IF m <= 2 THEN y - 1 ELSE y
        era == yy \div 400
        yoe == yy - era * 400
        mp  == IF m > 2 THEN m - 3 ELSE m + 9
        doy == (153 * mp + 2) \div 5 + d - 1
        doe == yoe * 365 + yoe \div 4 - yoe \div 100 + doy
    IN  era * 146097 + doe - 719468

IsLeap(y) == (y % 4 = 0 /\ y % 100 # 0) \/ y % 400 = 0

DaysInMonth(y, m) ==
    IF m = 2 THEN (IF IsLeap(y) THEN 29 ELSE 28)
    ELSE IF m \in {4, 6, 9, 11} THEN 30 ELSE 31

\* datetime(y, m, d, hh, mm) raises ValueError unless every field is in range
ValidDateTime(y, m, d, hh, mm) ==
    /\ y \in 1..9999
    /\ m \in 1..12
    /\ d >= 1 /\ d <= DaysInMonth(y, m)
    /\ hh \in 0..23
    /\ mm \in 0..59

PyNone == [k |-> "none", aware |-> FALSE, wall |-> 0, off |-> 0]
PyOther == [k |-> "other", aware |-> FALSE, wall |-> 0, off |-> 0]
PyDT(aware, wall, off) == [k |-> "dt", aware |-> aware, wall |-> wall, off |-> off]

\* datetime(y, m, d, hh, mm, tzinfo=dhaka_tz)
DhakaDT(y, m, d, hh, mm) ==
    PyDT(TRUE, DaysFromCivil(y, m, d) * MinutesPerDay + hh * 60 + mm, dhaka_tz)

\* the instant of an aware datetime, in UTC minutes
Instant(dt) == dt.wall - dt.off

\* dt.date(), as a day number in dt's own frame
DateOf(dt) == dt.wall \div MinutesPerDay

\* date.weekday(): Monday is 0; 1970-01-01 was a Thursday
Weekday(day) == (day + 3) % 7

\* dt.astimezone(dhaka_tz): a naive value is presumed to be in the system zone
astimezone_dhaka(dt) ==
    IF dt.aware THEN PyDT(TRUE, Instant(dt) + dhaka_tz, dhaka_tz)
    ELSE PyDT(TRUE, (dt.wall - sys_offset) + dhaka_tz, dhaka_tz)

\* comparing a naive with an aware datetime raises TypeError
Comparable(a, b) == a.aware = b.aware

\* a < b for two comparable datetimes
Before(a, b) == IF a.aware THEN Instant(a) < Instant(b) ELSE a.wall < b.wall

\* datetime.now(dhaka_tz)
NowLocal == PyDT(TRUE, now, dhaka_tz)

-----------------------------------------------------------------------------
(* BSON round trip of a datetime through the MongoClient of get_client() *)

BNull == [k |-> "null", utc |-> 0]
BOther == [k |-> "other", utc |-> 0]
BDate(u) == [k |-> "date", utc |-> u]

\* writing: an aware datetime is stored as its UTC instant, a naive one as is
bson_encode(dt) ==
    IF dt.k = "none" THEN BNull
    ELSE IF dt.k = "other" THEN BOther
    ELSE IF dt.aware THEN BDate(Instant(dt)) ELSE BDate(dt.wall)

\* reading: MongoClient(MONGODB_URI, tls=True) passes no tz_aware, so unless
\* the URI sets it the date comes back as a naive datetime holding UTC
bson_decode(b) ==
    IF b.k = "null" THEN PyNone
    ELSE IF b.k = "other" THEN PyOther
    ELSE IF tz_aware THEN PyDT(TRUE, b.utc, 0) ELSE PyDT(FALSE, b.utc, 0)

-----------------------------------------------------------------------------
(* Schedule documents *)

\* a key the document does not have
NoKey == "<absent>"

\* one piece of a string split at a separator: int() parses it or raises
IntPart(n) == [int |-> TRUE, v |-> n]
BadPart == [int |-> FALSE, v |-> 0]

\* a string field, kept as the pieces split(sep) yields
Str(parts) == [t |-> "str", parts |-> parts]
AbsentField == [t |-> "absent", parts |-> <<>>]
NoneField == [t |-> "none", parts |-> <<>>]
OtherField == [t |-> "other", parts |-> <<>>]

\* a weekdays field
WeekdayList(days) == [t |-> "list", days |-> days]
AbsentWeekdays == [t |-> "absent", days |-> {}]
OtherWeekdays == [t |-> "other", days |-> {}]

AllInt(parts) == \A i \in 1..Len(parts) : parts[i].int

\* time_value.strftime("%H:%M")
strftime_HM(t) == Str(<<IntPart(t.hh), IntPart(t.mm)>>)

\* date_value.isoformat()
isoformat(dv) == Str(<<IntPart(dv.y), IntPart(dv.m), IntPart(dv.d)>>)

\* time_str = doc.get("time_str", "00:00");
\* try: hh, mm = [int(x) for x in time_str.split(":")]  except Exception: 0, 0
ParseTime(ts) ==
    LET s == IF ts.t = "absent" THEN Str(<<IntPart(0), IntPart(0)>>) ELSE ts
    IN  IF s.t = "str" /\ Len(s.parts) = 2 /\ AllInt(s.parts)
        THEN <<s.parts[1].v, s.parts[2].v>>
        ELSE <<0, 0>>

\* last_run_at = doc.get("last_run_at"); anything but a datetime counts as None
LastRunAt(doc) ==
    LET v == bson_decode(doc.last_run_at)
    IN  IF v.k = "dt" THEN v ELSE PyNone

\* kind = doc.get("kind", "once")
KindOf(doc) == IF doc.kind = NoKey THEN "once" ELSE doc.kind

\* the ONCE branch of the loop body: "fire", "skip" (continue or fall through)
\* or "raise" (an exception no handler of run_due_schedules catches)
EvalOnce(doc, nl) ==
    LET t  == ParseTime(doc.time_str)
        dp == doc.date.parts
        lr == LastRunAt(doc)
    IN  IF doc.date.t # "str" /\ doc.date.t # "other" THEN "skip"
        ELSE IF doc.date.t = "str" /\ Len(dp) = 0 THEN "skip"
        ELSE IF ~(doc.date.t = "str" /\ Len(dp) = 3 /\ AllInt(dp)) THEN "skip"
        ELSE IF ~ValidDateTime(dp[1].v, dp[2].v, dp[3].v, t[1], t[2]) THEN "skip"
        ELSE LET sched_dt == DhakaDT(dp[1].v, dp[2].v, dp[3].v, t[1], t[2])
             IN  IF ~(Instant(nl) >= Instant(sched_dt)) THEN "skip"
                 ELSE IF lr.k = "none" THEN "fire"
                 ELSE IF ~Comparable(lr, sched_dt) THEN "raise"
                 ELSE IF Before(lr, sched_dt) THEN "fire" ELSE "skip"

\* mutant: the weekday of the scan is not looked at
EvalWeekly_AnyDay(doc, nl) ==
    LET t   == ParseTime(doc.time_str)
        lr  == LastRunAt(doc)
        day == DateOf(nl)
    IN  IF doc.weekdays.t = "other" THEN "raise"
        ELSE IF ~(t[1] \in 0..23 /\ t[2] \in 0..59) THEN "raise"
        ELSE LET sched_wall == day * MinutesPerDay + t[1] * 60 + t[2]
                 already_today ==
                     /\ lr.k # "none"
                     /\ DateOf(astimezone_dhaka(lr)) = day
             IN  IF ~(nl.wall >= sched_wall) THEN "skip"
                 ELSE IF already_today THEN "skip" ELSE "fire"

\* the WEEKLY branch of the loop body
EvalWeekly(doc, nl) ==
    LET t   == ParseTime(doc.time_str)
        lr  == LastRunAt(doc)
        day == DateOf(nl)
    IN  IF doc.weekdays.t = "other" THEN "raise"
        ELSE IF Weekday(day) \notin doc.weekdays.days THEN "skip"
        ELSE IF ~(t[1] \in 0..23 /\ t[2] \in 0..59) THEN "raise"
        ELSE LET sched_wall == day * MinutesPerDay + t[1] * 60 + t[2]
                 already_today ==
                     /\ lr.k # "none"
                     /\ DateOf(astimezone_dhaka(lr)) = day
             IN  IF ~(nl.wall >= sched_wall) THEN "skip"
                 ELSE IF already_today THEN "skip" ELSE "fire"

\* one pass of the body of "for doc in docs" up to the call of _run_action
EvalDoc(doc, nl) ==
    IF KindOf(doc) = "once" THEN EvalOnce(doc, nl)
    ELSE IF KindOf(doc) = "weekly" THEN EvalWeekly(doc, nl)
    ELSE "skip"

\* _run_action reads doc["device_id"] and doc["action"] outside any try
RunActionRaises(doc) == doc.device_id = NoKey \/ doc.action = NoKey

-----------------------------------------------------------------------------
(* Inputs *)

\* the two invocations of run_due_schedules that may be in progress at once
Scanners == {1, 2}

\* outcomes of reaching the store: get_client() returned None, the operation
\* raised PyMongoError, or it went through
StoreStates == {"ok", "no_client", "error"}

\* system time zones of the host: UTC, and the zone of the building (UTC+6)
SystemOffsets == {0, dhaka_tz}

Day0 == DaysFromCivil(2024, 1, 1)
StartNow == Day0 * MinutesPerDay + 3 * 60
TickMinutes == 6 * 60
Days == Day0 .. (Day0 + HorizonDays - 1)
Ids == 1 .. MaxSchedules

\* the schedule the operator creates while scans overlap
RaceIds == {1}

NoDate == [none |-> TRUE, y |-> 0, m |-> 0, d |-> 0]
DateValue(y, m, d) == [none |-> FALSE, y |-> y, m |-> m, d |-> d]
NoWeekdays == [none |-> TRUE, days |-> {}]
WeekdaysValue(days) == [none |-> FALSE, days |-> days]
TimeValue(hh, mm) == [hh |-> hh, mm |-> mm]

Request(action, kind, dv, tv, wd) ==
    [action |-> action, kind |-> kind, date_value |-> dv, time_value |-> tv,
     weekdays |-> wd]

NoRequest == Request("none", "none", NoDate, TimeValue(0, 0), NoWeekdays)

\* an operator call as the caller sees it: what was called, with what, in which
\* state of the store, and what came back
Call(op, st, ret, req, id, b) ==
    [op |-> op, st |-> st, ret |-> ret, req |-> req, id |-> id, b |-> b]

\* the devices of devices.json
Devices == {"plug1", "plug2"}

\* no reading stored, nothing computed
NoReadings == [d \in Devices |-> {}]
NoView == [op |-> "none"]

\* the calls of create_schedule the operator makes
CreateRequests ==
    { Request("on", "once", DateValue(2024, 1, 1), TimeValue(9, 0), NoWeekdays),
      Request("off", "weekly", NoDate, TimeValue(3, 0), WeekdaysValue({0, 1})),
      Request("on", "weekly", NoDate, TimeValue(9, 0), WeekdaysValue({1})),
      Request("toggle", "once", DateValue(2024, 1, 1), TimeValue(9, 0), NoWeekdays),
      Request("on", "daily", NoDate, TimeValue(9, 0), NoWeekdays),
      Request("on", "once", NoDate, TimeValue(9, 0), NoWeekdays) }

-----------------------------------------------------------------------------
(* create_schedule, update_schedule_active, delete_schedule *)

\* the domain validation of create_schedule
RequestValid(req) ==
    /\ req.action \in {"on", "off"}
    /\ req.kind \in {"once", "weekly"}
    /\ ~(req.kind = "once" /\ req.date_value.none)

\* how a call of create_schedule ends: None before anything is looked at when
\* there is no client, ValueError on a bad request, None when insert_one
\* raises PyMongoError, the new id otherwise
\* mutant: the three checks at the head of create_schedule are gone
CreateOutcome_Unchecked(req, st) ==
    IF st = "no_client" THEN "None"
    ELSE IF st = "error" THEN "None"
    ELSE "id"

CreateOutcome(req, st) ==
    IF st = "no_client" THEN "None"
    ELSE IF ~RequestValid(req) THEN "ValueError"
    ELSE IF st = "error" THEN "None"
    ELSE "id"

\* the document create_schedule builds
NewDoc(id, req) ==
    [ id          |-> id,
      device_id   |-> "plug1",
      action      |-> req.action,
      kind        |-> req.kind,
      time_str    |-> strftime_HM(req.time_value),
      is_active   |-> TRUE,
      last_run_at |-> BNull,
      date        |-> IF req.kind = "once" THEN isoformat(req.date_value)
                      ELSE AbsentField,
      weekdays    |-> IF req.kind = "once" THEN AbsentWeekdays
                      ELSE IF req.weekdays.none THEN WeekdayList({})
                      ELSE WeekdayList(req.weekdays.days) ]

\* schedules.insert_one(doc)
Insert(doc) == [i \in (DOMAIN store) \cup {doc.id} |-> IF i = doc.id THEN doc ELSE store[i]]

create_schedule(req, st) ==
    LET out == CreateOutcome(req, st)
    IN  /\ IF out = "id"
           THEN /\ store' = Insert(NewDoc(nextId, req))
                /\ nextId' = nextId + 1
           ELSE UNCHANGED <<store, nextId>>
        /\ UNCHANGED <<now, tz_aware, sys_offset, readings, view, fires, logs>>
        /\ UNCHANGED scanVars

\* update_one({"_id": id}, {"$set": {"is_active": b}}): no document, no effect
\* mutant: the write goes through although the store was not reached
SetActive_Unguarded(id, b, st) ==
    IF id \in DOMAIN store
    THEN [store EXCEPT ![id].is_active = b]
    ELSE store

SetActive(id, b, st) ==
    IF st = "ok" /\ id \in DOMAIN store
    THEN [store EXCEPT ![id].is_active = b]
    ELSE store

\* update_schedule_active returns None on every path
UpdateOutcome(id, b, st) == "None"

update_schedule_active(id, b, st) ==
    /\ store' = SetActive(id, b, st)
    /\ UNCHANGED <<nextId, now, tz_aware, sys_offset, readings, view, fires, logs>>
    /\ UNCHANGED scanVars

\* delete_one({"_id": id})
Delete(id, st) ==
    IF st = "ok" /\ id \in DOMAIN store
    THEN [i \in (DOMAIN store) \ {id} |-> store[i]]
    ELSE store

\* delete_schedule returns None on every path
DeleteOutcome(id, st) == "None"

delete_schedule(id, st) ==
    /\ store' = Delete(id, st)
    /\ UNCHANGED <<nextId, now, tz_aware, sys_offset, readings, view, fires, logs>>
    /\ UNCHANGED scanVars

-----------------------------------------------------------------------------
(* run_due_schedules and _run_action, one step per store or device call *)

RECURSIVE ActiveFrom(_)
\* list(schedules.find({"is_active": True})), in insertion order
ActiveFrom(i) ==
    IF i > MaxSchedules THEN <<>>
    ELSE (IF i \in DOMAIN store /\ store[i].is_active THEN <<store[i]>> ELSE <<>>)
         \o ActiveFrom(i + 1)

RECURSIVE AllFrom(_)
AllFrom(i) ==
    IF i > MaxSchedules THEN <<>>
    ELSE (IF i \in DOMAIN store THEN <<store[i]>> ELSE <<>>) \o AllFrom(i + 1)

\* mutant: the query drops its is_active filter
Find_NoFilter == AllFrom(1)

Find == ActiveFrom(1)

\* "doc" of the loop: the document as list(coll.find(...)) returned it
\* mutant: the document is read from the collection again at every use
CurDoc_Fresh(p) ==
    IF docs[p][idx[p]].id \in DOMAIN store
    THEN store[docs[p][idx[p]].id]
    ELSE docs[p][idx[p]]

CurDoc(p) == docs[p][idx[p]]

\* the invocation is over: back to the caller, its locals gone
NoTrail == [attempted |-> {}, failed |-> {}, overlapped |-> FALSE]

Returned == [how |-> "returned", at |-> 0]
Raised(id) == [how |-> "raised", at |-> id]

Return(p, how) ==
    /\ pc' = [pc EXCEPT ![p] = "idle"]
    /\ scan_result' = [scan_result EXCEPT ![p] = how]
    /\ trail' = [trail EXCEPT ![p] = NoTrail]
    /\ docs' = [docs EXCEPT ![p] = <<>>]
    /\ idx' = [idx EXCEPT ![p] = 0]
    /\ now_local' = [now_local EXCEPT ![p] = PyNone]
    /\ res' = [res EXCEPT ![p] = "none"]
    /\ inactive_at_start' = [inactive_at_start EXCEPT ![p] = {}]

\* the next iteration of "for doc in docs", or the end of the loop
Advance(p) ==
    IF idx[p] = Len(docs[p])
    THEN Return(p, Returned)
    ELSE /\ idx' = [idx EXCEPT ![p] = idx[p] + 1]
         /\ pc' = [pc EXCEPT ![p] = "eval"]
         /\ res' = [res EXCEPT ![p] = "none"]
         /\ UNCHANGED <<docs, now_local, scan_result, inactive_at_start, trail>>

\* no schedule has reached the cap on commands per day
WithinFireCap == \A i \in Ids : \A d \in Days : fires[i][d] < MaxFiresPerDay

\* run_due_schedules up to the loop: the client, the clock, the query
\* mutant: the loop is entered whatever the client and the query gave
StartScan_Regardless(p, st) ==
    /\ pc[p] = "idle"
    /\ WithinFireCap
    /\ LET found == Find
                busy  == {q \in Scanners : pc[q] # "idle"}
            IN  IF found = <<>>
                THEN /\ scan_result' = [scan_result EXCEPT ![p] = Returned]
                     /\ UNCHANGED <<pc, docs, idx, now_local, res, inactive_at_start, trail>>
                ELSE /\ pc' = [pc EXCEPT ![p] = "eval"]
                     /\ docs' = [docs EXCEPT ![p] = found]
                     /\ idx' = [idx EXCEPT ![p] = 1]
                     /\ now_local' = [now_local EXCEPT ![p] = NowLocal]
                     /\ inactive_at_start' = [inactive_at_start EXCEPT ![p] =
                            {i \in DOMAIN store : ~store[i].is_active}]
                     /\ trail' = [q \in Scanners |->
                            IF q = p THEN [NoTrail EXCEPT !.overlapped = busy # {}]
                            ELSE IF q \in busy THEN [trail[q] EXCEPT !.overlapped = TRUE]
                            ELSE trail[q]]
                     /\ UNCHANGED <<res, scan_result>>
    /\ UNCHANGED <<store, nextId, now, tz_aware, sys_offset, readings, view, fires, logs, last_call>>

StartScan(p, st) ==
    /\ pc[p] = "idle"
    /\ WithinFireCap
    /\ IF st # "ok"
       THEN /\ scan_result' = [scan_result EXCEPT ![p] = Returned]
            /\ UNCHANGED <<pc, docs, idx, now_local, res, inactive_at_start, trail>>
       ELSE LET found == Find
                busy  == {q \in Scanners : pc[q] # "idle"}
            IN  IF found = <<>>
                THEN /\ scan_result' = [scan_result EXCEPT ![p] = Returned]
                     /\ UNCHANGED <<pc, docs, idx, now_local, res, inactive_at_start, trail>>
                ELSE /\ pc' = [pc EXCEPT ![p] = "eval"]
                     /\ docs' = [docs EXCEPT ![p] = found]
                     /\ idx' = [idx EXCEPT ![p] = 1]
                     /\ now_local' = [now_local EXCEPT ![p] = NowLocal]
                     /\ inactive_at_start' = [inactive_at_start EXCEPT ![p] =
                            {i \in DOMAIN store : ~store[i].is_active}]
                     /\ trail' = [q \in Scanners |->
                            IF q = p THEN [NoTrail EXCEPT !.overlapped = busy # {}]
                            ELSE IF q \in busy THEN [trail[q] EXCEPT !.overlapped = TRUE]
                            ELSE trail[q]]
                     /\ UNCHANGED <<res, scan_result>>
    /\ UNCHANGED <<store, nextId, now, tz_aware, sys_offset, readings, view, fires, logs, last_call>>

\* the loop body for the current document, up to the device command
\* mutant: a due schedule gets its marker without _run_action being called
Evaluate_MarksFirst(p) ==
    /\ pc[p] = "eval"
    /\ LET verdict == EvalDoc(CurDoc(p), now_local[p])
       IN  IF verdict = "raise" \/ (verdict = "fire" /\ RunActionRaises(CurDoc(p)))
           THEN Return(p, Raised(CurDoc(p).id))
           ELSE IF verdict = "fire"
           THEN /\ pc' = [pc EXCEPT ![p] = "marker"]
                /\ UNCHANGED <<docs, idx, now_local, res, scan_result, inactive_at_start, trail>>
           ELSE Advance(p)
    /\ UNCHANGED <<store, nextId, now, tz_aware, sys_offset, readings, view, fires, logs, last_call>>

Evaluate(p) ==
    /\ pc[p] = "eval"
    /\ LET verdict == EvalDoc(CurDoc(p), now_local[p])
       IN  IF verdict = "raise" \/ (verdict = "fire" /\ RunActionRaises(CurDoc(p)))
           THEN Return(p, Raised(CurDoc(p).id))
           ELSE IF verdict = "fire"
           THEN /\ pc' = [pc EXCEPT ![p] = "command"]
                /\ UNCHANGED <<docs, idx, now_local, res, scan_result, inactive_at_start, trail>>
           ELSE Advance(p)
    /\ UNCHANGED <<store, nextId, now, tz_aware, sys_offset, readings, view, fires, logs, last_call>>

\* _run_action: get_token() and control_device(); an exception becomes the result
SendCommand(p, ok) ==
    /\ pc[p] = "command"
    /\ fires' = [fires EXCEPT ![CurDoc(p).id][DateOf(now_local[p])] = @ + 1]
    /\ res' = [res EXCEPT ![p] = IF ok THEN "ok" ELSE "error"]
    /\ pc' = [pc EXCEPT ![p] = "log"]
    /\ trail' = [trail EXCEPT ![p].attempted = @ \cup {CurDoc(p).id},
                              ![p].failed = IF ok THEN @ ELSE @ \cup {CurDoc(p).id}]
    /\ UNCHANGED <<docs, idx, now_local, scan_result, inactive_at_start>>
    /\ UNCHANGED <<store, nextId, now, tz_aware, sys_offset, readings, view, logs, last_call>>

\* the document _run_action inserts into schedule_logs (executed_at, the clock
\* reading at the insert, is not kept: nothing reads it back)
LogEntry(doc, result) ==
    [schedule_id |-> doc.id, device_id |-> doc.device_id, action |-> doc.action,
     result |-> result]

\* _run_action: logs.insert_one(...) when there is a client; PyMongoError is passed over
\* mutant: the entry always records a successful command
AppendLog_AlwaysOk(p, st) ==
    /\ pc[p] = "log"
    /\ logs' = IF st = "ok"
               THEN [logs EXCEPT ![CurDoc(p).id] = Append(@, LogEntry(CurDoc(p), "ok"))]
               ELSE logs
    /\ pc' = [pc EXCEPT ![p] = "marker"]
    /\ UNCHANGED <<docs, idx, now_local, res, scan_result, inactive_at_start, trail>>
    /\ UNCHANGED <<store, nextId, now, tz_aware, sys_offset, readings, view, fires, last_call>>

AppendLog(p, st) ==
    /\ pc[p] = "log"
    /\ logs' = IF st = "ok"
               THEN [logs EXCEPT ![CurDoc(p).id] = Append(@, LogEntry(CurDoc(p), res[p]))]
               ELSE logs
    /\ pc' = [pc EXCEPT ![p] = "marker"]
    /\ UNCHANGED <<docs, idx, now_local, res, scan_result, inactive_at_start, trail>>
    /\ UNCHANGED <<store, nextId, now, tz_aware, sys_offset, readings, view, fires, last_call>>

\* update_one({"_id": id}, {"$set": {"last_run_at": now_local}})
\* mutant: the marker write also switches the schedule off
SetLastRun_Retires(id, dt, st) ==
    IF st = "ok" /\ id \in DOMAIN store
    THEN [store EXCEPT ![id].last_run_at = bson_encode(dt), ![id].is_active = FALSE]
    ELSE store

SetLastRun(id, dt, st) ==
    IF st = "ok" /\ id \in DOMAIN store
    THEN [store EXCEPT ![id].last_run_at = bson_encode(dt)]
    ELSE store

\* the marker write after _run_action; PyMongoError is passed over
\* mutant: the failure of the write leaves run_due_schedules as an exception
WriteMarker_Propagates(p, st) ==
    /\ pc[p] = "marker"
    /\ store' = SetLastRun(CurDoc(p).id, now_local[p], st)
    /\ IF st = "error" THEN Return(p, Raised(CurDoc(p).id)) ELSE Advance(p)
    /\ UNCHANGED <<nextId, now, tz_aware, sys_offset, readings, view, fires, logs, last_call>>

WriteMarker(p, st) ==
    /\ pc[p] = "marker"
    /\ store' = SetLastRun(CurDoc(p).id, now_local[p], st)
    /\ Advance(p)
    /\ UNCHANGED <<nextId, now, tz_aware, sys_offset, readings, view, fires, logs, last_call>>

\* the clock moves on, up to a limit
TickUntil(limit) ==
    /\ now + TickMinutes < limit
    /\ now' = now + TickMinutes
    /\ UNCHANGED <<store, nextId, tz_aware, sys_offset, readings, view, fires, logs, last_call>>
    /\ UNCHANGED scanVars

\* the clock over the whole horizon
Tick == TickUntil((Day0 + HorizonDays) * MinutesPerDay)

\* the clock over the first ticks of the first day
TickEarly == TickUntil(StartNow + RaceTicks * TickMinutes + 1)

-----------------------------------------------------------------------------
(* Specifications *)

Init ==
    /\ store = <<>>
    /\ nextId = 1
    /\ now = StartNow
    /\ tz_aware \in BOOLEAN
    /\ sys_offset \in SystemOffsets
    /\ tz_aware => sys_offset = 0
    /\ pc = [p \in Scanners |-> "idle"]
    /\ docs = [p \in Scanners |-> <<>>]
    /\ idx = [p \in Scanners |-> 0]
    /\ now_local = [p \in Scanners |-> PyNone]
    /\ res = [p \in Scanners |-> "none"]
    /\ scan_result = [p \in Scanners |-> [how |-> "none", at |-> 0]]
    /\ inactive_at_start = [p \in Scanners |-> {}]
    /\ trail = [p \in Scanners |-> NoTrail]
    /\ fires = [i \in Ids |-> [d \in Days |-> 0]]
    /\ logs = [i \in Ids |-> <<>>]
    /\ last_call = Call("none", "ok", "None", NoRequest, 0, FALSE)
    /\ readings = NoReadings
    /\ view = NoView

\* the operator's calls, their results watched (last_call) ...
Create ==
    \E req \in CreateRequests : \E st \in StoreStates :
        /\ nextId \in Ids
        /\ create_schedule(req, st)
        /\ last_call' = Call("create", st, CreateOutcome(req, st), req, 0, FALSE)

UpdateActive ==
    \E i \in Ids : \E b \in BOOLEAN : \E st \in StoreStates :
        /\ update_schedule_active(i, b, st)
        /\ last_call' = Call("update", st, UpdateOutcome(i, b, st), NoRequest, i, b)

DeleteOne ==
    \E i \in Ids : \E st \in StoreStates :
        /\ delete_schedule(i, st)
        /\ last_call' = Call("delete", st, DeleteOutcome(i, st), NoRequest, i, FALSE)

\* ... and the same calls with nobody looking at what they return
CreateQuiet ==
    \E req \in CreateRequests :
        nextId \in RaceIds /\ create_schedule(req, "ok") /\ UNCHANGED last_call

UpdateQuiet ==
    \E i \in RaceIds : \E b \in BOOLEAN :
        update_schedule_active(i, b, "ok") /\ UNCHANGED last_call

DeleteQuiet ==
    \E i \in RaceIds : delete_schedule(i, "ok") /\ UNCHANGED last_call

Start == \E p \in Scanners : \E st \in StoreStates : StartScan(p, st)
Eval == \E p \in Scanners : Evaluate(p)
Command == \E p \in Scanners : \E ok \in BOOLEAN : SendCommand(p, ok)
Log == \E p \in Scanners : \E st \in {"ok", "error"} : AppendLog(p, st)
Marker == \E p \in Scanners : \E st \in {"ok", "error"} : WriteMarker(p, st)

\* every interleaving: overlapping scans, failing writes, an operator at work
Next ==
    \/ CreateQuiet
    \/ UpdateQuiet
    \/ DeleteQuiet
    \/ Start
    \/ Eval
    \/ Command
    \/ Log
    \/ Marker
    \/ TickEarly

Spec == Init /\ [][Next]_vars

\* the operator's calls alone, each with every state of the store
NextOps ==
    \/ Create
    \/ UpdateActive
    \/ DeleteOne

SpecOps == Init /\ [][NextOps]_vars

\* create_schedule calls that pass the validation
ValidRequests == {req \in CreateRequests : RequestValid(req)}

\* how many schedules the operator has created before the scans begin
SeqSizes == {1, 2}

\* the stores k successful create_schedule calls leave behind
StoresOf(k) ==
    { [i \in 1..k |-> NewDoc(i, f[i])] : f \in [1..k -> ValidRequests] }

\* the same after update_schedule_active(i, False) for the schedules of off
Deactivated(st, off) ==
    [i \in DOMAIN st |-> IF i \in off THEN [st[i] EXCEPT !.is_active = FALSE] ELSE st[i]]

\* the schedules are in place; scans and the clock follow
InitSeq ==
    /\ \E k \in SeqSizes : \E st \in StoresOf(k) : \E off \in SUBSET (1..k) :
          store = Deactivated(st, off) /\ nextId = k + 1
    /\ now = StartNow
    /\ tz_aware \in BOOLEAN
    /\ sys_offset \in SystemOffsets
    /\ tz_aware => sys_offset = 0
    /\ pc = [p \in Scanners |-> "idle"]
    /\ docs = [p \in Scanners |-> <<>>]
    /\ idx = [p \in Scanners |-> 0]
    /\ now_local = [p \in Scanners |-> PyNone]
    /\ res = [p \in Scanners |-> "none"]
    /\ scan_result = [p \in Scanners |-> [how |-> "none", at |-> 0]]
    /\ inactive_at_start = [p \in Scanners |-> {}]
    /\ trail = [p \in Scanners |-> NoTrail]
    /\ fires = [i \in Ids |-> [d \in Days |-> 0]]
    /\ logs = [i \in Ids |-> <<>>]
    /\ last_call = Call("none", "ok", "None", NoRequest, 0, FALSE)
    /\ readings = NoReadings
    /\ view = NoView

SeqStart == StartScan(1, "ok")
SeqEval == Evaluate(1)
SeqCommand == \E ok \in BOOLEAN : SendCommand(1, ok)
SeqLog == AppendLog(1, "ok")
SeqMarker == WriteMarker(1, "ok")

\* one invocation at a time, the store reachable, every write going through
NextSeq ==
    \/ SeqStart
    \/ SeqEval
    \/ SeqCommand
    \/ SeqLog
    \/ SeqMarker
    \/ Tick

SpecSeq == InitSeq /\ [][NextSeq]_vars

\* documents that create_schedule would not have written, as the loop of
\* run_due_schedules reads them
MalformedDocs(id) ==
    LET w == NewDoc(id, Request("off", "weekly", NoDate, TimeValue(3, 0),
                                WeekdaysValue({0, 1})))
        o == NewDoc(id, Request("on", "once", DateValue(2024, 1, 1), TimeValue(3, 0),
                                NoWeekdays))
    IN  { [w EXCEPT !.time_str = Str(<<IntPart(25), IntPart(0)>>)],
          [w EXCEPT !.time_str = Str(<<IntPart(12), IntPart(99)>>)],
          [w EXCEPT !.time_str = Str(<<BadPart>>)],
          [w EXCEPT !.time_str = AbsentField],
          [w EXCEPT !.time_str = OtherField],
          [o EXCEPT !.time_str = Str(<<IntPart(25), IntPart(0)>>)],
          [o EXCEPT !.time_str = Str(<<IntPart(3), BadPart>>)],
          [o EXCEPT !.date = AbsentField],
          [o EXCEPT !.date = NoneField],
          [o EXCEPT !.date = OtherField],
          [o EXCEPT !.date = Str(<<BadPart>>)],
          [o EXCEPT !.date = Str(<<IntPart(2024), IntPart(2), IntPart(30)>>)],
          [w EXCEPT !.weekdays = AbsentWeekdays],
          [w EXCEPT !.weekdays = OtherWeekdays],
          [w EXCEPT !.device_id = NoKey],
          [o EXCEPT !.action = NoKey],
          [o EXCEPT !.kind = NoKey],
          [o EXCEPT !.kind = "daily"],
          [o EXCEPT !.last_run_at = BOther],
          [w EXCEPT !.last_run_at = BOther],
          [w EXCEPT !.last_run_at = BDate(StartNow - MinutesPerDay)] }

\* the store holds one such document, read first, and one that create_schedule wrote
InitMalformed ==
    /\ \E bad \in MalformedDocs(1) : \E req \in ValidRequests :
          store = <<bad, NewDoc(2, req)>>
    /\ nextId = 3
    /\ now = StartNow
    /\ tz_aware \in BOOLEAN
    /\ sys_offset \in SystemOffsets
    /\ tz_aware => sys_offset = 0
    /\ pc = [p \in Scanners |-> "idle"]
    /\ docs = [p \in Scanners |-> <<>>]
    /\ idx = [p \in Scanners |-> 0]
    /\ now_local = [p \in Scanners |-> PyNone]
    /\ res = [p \in Scanners |-> "none"]
    /\ scan_result = [p \in Scanners |-> [how |-> "none", at |-> 0]]
    /\ inactive_at_start = [p \in Scanners |-> {}]
    /\ trail = [p \in Scanners |-> NoTrail]
    /\ fires = [i \in Ids |-> [d \in Days |-> 0]]
    /\ logs = [i \in Ids |-> <<>>]
    /\ last_call = Call("none", "ok", "None", NoRequest, 0, FALSE)
    /\ readings = NoReadings
    /\ view = NoView

SpecMalformed == InitMalformed /\ [][NextSeq]_vars

-----------------------------------------------------------------------------
(* One-time schedules: the operator creates and switches them between scans *)

\* the one-time schedules the operator creates: for the morning of the first
\* day, for a day that is already past, and for the morning of the second day
OnceRequests ==
    { Request("on", "once", DateValue(2024, 1, 1), TimeValue(9, 0), NoWeekdays),
      Request("off", "once", DateValue(2023, 12, 31), TimeValue(21, 0), NoWeekdays),
      Request("on", "once", DateValue(2024, 1, 2), TimeValue(9, 0), NoWeekdays) }

\* create_schedule between two calls of run_due_schedules
OnceCreate ==
    \E req \in OnceRequests :
        /\ pc[1] = "idle"
        /\ nextId \in Ids
        /\ create_schedule(req, "ok")
        /\ UNCHANGED last_call

\* update_schedule_active between two calls of run_due_schedules
OnceSwitch ==
    \E i \in DOMAIN store :
        /\ pc[1] = "idle"
        /\ update_schedule_active(i, ~store[i].is_active, "ok")
        /\ UNCHANGED last_call

\* the device takes the command
OnceCommand == SendCommand(1, TRUE)

NextOnce ==
    \/ OnceCreate
    \/ OnceSwitch
    \/ SeqStart
    \/ SeqEval
    \/ OnceCommand
    \/ SeqLog
    \/ SeqMarker
    \/ Tick

SpecOnce == Init /\ [][NextOnce]_vars

-----------------------------------------------------------------------------
(* One-time schedules while no write of last_run_at goes through *)

\* the one schedule of the store is created between two calls
LoneCreate ==
    \E req \in OnceRequests :
        /\ pc[1] = "idle"
        /\ nextId \in RaceIds
        /\ create_schedule(req, "ok")
        /\ UNCHANGED last_call

\* update_one raises PyMongoError at every marker write
MarkerFails == WriteMarker(1, "error")

NextMarkerDown ==
    \/ LoneCreate
    \/ SeqStart
    \/ SeqEval
    \/ SeqCommand
    \/ SeqLog
    \/ MarkerFails
    \/ Tick

SpecMarkerDown == Init /\ [][NextMarkerDown]_vars

-----------------------------------------------------------------------------
(* The records create_schedule persists *)

\* calls with and without a date, with weekdays given, empty and left out
RecordRequests ==
    { Request("on", "once", DateValue(2024, 1, 1), TimeValue(9, 0), NoWeekdays),
      Request("off", "once", DateValue(2024, 1, 2), TimeValue(9, 0), WeekdaysValue({0})),
      Request("on", "once", NoDate, TimeValue(9, 0), WeekdaysValue({0})),
      Request("on", "weekly", NoDate, TimeValue(9, 0), WeekdaysValue({0, 1})),
      Request("off", "weekly", DateValue(2024, 1, 1), TimeValue(9, 0), WeekdaysValue({1})),
      Request("on", "weekly", NoDate, TimeValue(9, 0), WeekdaysValue({})),
      Request("off", "weekly", NoDate, TimeValue(9, 0), NoWeekdays) }

RecordCreate ==
    \E req \in RecordRequests : \E st \in StoreStates :
        /\ nextId \in Ids
        /\ create_schedule(req, st)
        /\ last_call' = Call("create", st, CreateOutcome(req, st), req, 0, FALSE)

NextRecords ==
    \/ RecordCreate
    \/ OnceSwitch
    \/ Tick

SpecRecords == Init /\ [][NextRecords]_vars

-----------------------------------------------------------------------------
(* Scans while the schedule store cannot be read *)

\* get_client() returns None, or schedules.find(...) raises PyMongoError
DownStart == \E st \in {"no_client", "error"} : StartScan(1, st)

NextDown ==
    \/ DownStart
    \/ Tick

\* schedules are in the store, due or not; no call gets through to it
SpecDown == InitSeq /\ [][NextDown]_vars

-----------------------------------------------------------------------------
(* Weekly schedules: created between scans, their time of day edited *)

\* the weekly schedule the operator creates: for Mondays at 09:00, or for
\* Mondays and Tuesdays at 03:00 (2024-01-01 is a Monday)
WeeklyRequests ==
    { Request("on", "weekly", NoDate, TimeValue(9, 0), WeekdaysValue({0})),
      Request("off", "weekly", NoDate, TimeValue(3, 0), WeekdaysValue({0, 1})) }

\* the times of day a stored schedule is changed to
NewTimes == {TimeValue(3, 0), TimeValue(15, 0)}

\* create_schedule between two calls of run_due_schedules
WeeklyCreate ==
    \E req \in WeeklyRequests :
        /\ pc[1] = "idle"
        /\ nextId \in RaceIds
        /\ create_schedule(req, "ok")
        /\ UNCHANGED last_call

\* the time_str of a stored schedule is given another value between two calls
\* of run_due_schedules (schedules.py has no function for it: the document is
\* edited in the collection); the scans read whatever is stored
ChangeTime ==
    \E i \in DOMAIN store : \E tv \in NewTimes :
        /\ pc[1] = "idle"
        /\ store[i].time_str # strftime_HM(tv)
        /\ store' = [store EXCEPT ![i].time_str = strftime_HM(tv)]
        /\ UNCHANGED <<nextId, now, tz_aware, sys_offset, readings, view, fires, logs, last_call>>
        /\ UNCHANGED scanVars

NextWeekly ==
    \/ WeeklyCreate
    \/ ChangeTime
    \/ SeqStart
    \/ SeqEval
    \/ OnceCommand
    \/ SeqLog
    \/ SeqMarker
    \/ Tick

SpecWeekly == Init /\ [][NextWeekly]_vars

-----------------------------------------------------------------------------
(* A schedule switched off and on between scans *)

\* the schedule of the store is created between two calls, one-time or weekly
SwitchCreate ==
    \E req \in OnceRequests \cup WeeklyRequests :
        /\ pc[1] = "idle"
        /\ nextId \in RaceIds
        /\ create_schedule(req, "ok")
        /\ UNCHANGED last_call

NextSwitch ==
    \/ SwitchCreate
    \/ OnceSwitch
    \/ SeqStart
    \/ SeqEval
    \/ OnceCommand
    \/ SeqLog
    \/ SeqMarker
    \/ Tick

SpecSwitch == Init /\ [][NextSwitch]_vars

-----------------------------------------------------------------------------
(* The schedule editor: create_schedule for a device, then list_schedules *)

\* list_schedules() called without a device_id
NoDevice == "<none>"

\* the document create_schedule builds for device d
NewDocFor(id, d, req) == [NewDoc(id, req) EXCEPT !.device_id = d]

\* find(query).sort("created_at", -1): the matching documents, newest first
RECURSIVE NewestFirst(_, _)
NewestFirst(i, keep) ==
    IF i < 1 THEN <<>>
    ELSE (IF i \in DOMAIN store /\ keep[i] THEN <<store[i]>> ELSE <<>>)
         \o NewestFirst(i - 1, keep)

\* mutant: the query leaves device_id out
list_schedules_Unfiltered(d, st) ==
    IF st # "ok" THEN <<>>
    ELSE NewestFirst(MaxSchedules, [i \in DOMAIN store |-> TRUE])

\* list_schedules: [] without a client or on PyMongoError; the query filters
\* on device_id only when one is given
list_schedules(d, st) ==
    IF st # "ok" THEN <<>>
    ELSE NewestFirst(MaxSchedules,
                     [i \in DOMAIN store |-> d = NoDevice \/ store[i].device_id = d])

\* the operator saves the schedule form for device d
CreateFor ==
    \E d \in Devices : \E req \in CreateRequests : \E st \in StoreStates :
        LET out == CreateOutcome(req, st)
        IN  /\ nextId \in Ids
            /\ IF out = "id"
               THEN /\ store' = Insert(NewDocFor(nextId, d, req))
                    /\ nextId' = nextId + 1
               ELSE UNCHANGED <<store, nextId>>
            /\ view' = [op |-> "create", device |-> d, req |-> req, ret |-> out]
            /\ UNCHANGED <<now, tz_aware, sys_offset, readings, fires, logs, last_call>>
            /\ UNCHANGED scanVars

\* the schedule editor lists the schedules of a device, or all of them
ListFor ==
    \E d \in Devices \cup {NoDevice} : \E st \in StoreStates :
        /\ view' = [op |-> "list", device |-> d, st |-> st, result |-> list_schedules(d, st)]
        /\ UNCHANGED <<store, nextId, now, tz_aware, sys_offset, readings, fires, logs,
                       last_call>>
        /\ UNCHANGED scanVars

NextList ==
    \/ CreateFor
    \/ ListFor

SpecList == Init /\ [][NextList]_vars

-----------------------------------------------------------------------------
(* The rate calculator, src/billing.py                                     *)
(*                                                                         *)
(* Energy is counted in thousandths of a kWh, a rate in thousandths of a   *)
(* BDT per kWh, so a product is in millionths of a BDT.  An amount is kept *)
(* as [c, f]: c whole hundredths of a BDT and f the millionths beyond them *)
(* (0..9999), which keeps every intermediate value within 32 bits.  The    *)
(* code computes in binary floating point: its result is the nearest       *)
(* hundredth of the exact amount, except that an amount exactly half-way   *)
(* between two hundredths goes down or up with the float's last bit.       *)

FlatLimit == 50000
FlatRate == 4633
Inf == 2000000000

\* slabs: (upper bound, rate); float("inf") is a bound no energy reaches
slabs ==
    << <<75000, 5260>>, <<200000, 7200>>, <<300000, 7590>>, <<400000, 8020>>,
       <<600000, 12670>>, <<Inf, 14610>> >>

Max2(x, y) == IF x >= y THEN x ELSE y
Min2(x, y) == IF x <= y THEN x ELSE y

Amount(c, f) == [c |-> c, f |-> f]

\* span * rate for span >= 0
Times(span, rate) ==
    LET whole == (span \div 1000) * rate            \* thousandths of a BDT
        part  == (span % 1000) * rate               \* millionths of a BDT
        rest  == (whole % 10) * 1000 + part
    IN  Amount(whole \div 10 + rest \div 10000, rest % 10000)

\* total += amount
Plus(x, y) == Amount(x.c + y.c + (x.f + y.f) \div 10000, (x.f + y.f) % 10000)

\* round(amount, 2), in hundredths; up says which way an exact half goes
Round2(x, up) ==
    IF x.f > 5000 THEN x.c + 1
    ELSE IF x.f < 5000 THEN x.c
    ELSE IF up THEN x.c + 1 ELSE x.c

\* the loop "for upper, rate in slabs" from slab k on
RECURSIVE SlabLoop(_, _, _, _)
SlabLoop(k, remaining, last_upper, total) ==
    IF k > Len(slabs) \/ remaining <= 0 THEN total
    ELSE LET upper == slabs[k][1]
             rate  == slabs[k][2]
             span  == Min2(remaining, upper - last_upper)
         IN  IF span > 0
             THEN SlabLoop(k + 1, remaining - span, upper, Plus(total, Times(span, rate)))
             ELSE SlabLoop(k + 1, remaining, last_upper, total)

\* mutant: the flat rate for small consumption is mistyped
bd_domestic_bill_FlatTypo(units, up) ==
    LET u == Max2(0, units)
    IN  IF u <= FlatLimit THEN Round2(Times(u, FlatRate + 1000), up)
        ELSE Round2(SlabLoop(1, u, 0, Amount(0, 0)), up)

\* mutant: above the threshold only the units beyond it go through the slabs
bd_domestic_bill_Marginal(units, up) ==
    LET u == Max2(0, units)
    IN  IF u <= FlatLimit THEN Round2(Times(u, FlatRate), up)
        ELSE Round2(Plus(Times(FlatLimit, FlatRate),
                         Times(u - FlatLimit, slabs[1][2])), up)

\* _bd_domestic_bill(units_kwh), in hundredths of a BDT
bd_domestic_bill(units, up) ==
    LET u == Max2(0, units)
    IN  IF u <= FlatLimit THEN Round2(Times(u, FlatRate), up)
        ELSE Round2(SlabLoop(1, u, 0, Amount(0, 0)), up)

\* where the tariff changes
Thresholds == {0, FlatLimit, 75000, 200000, 300000, 400000, 600000}

\* the energies the bill is asked for: on, just below and just above every
\* threshold, negative ones, and amounts that fall on an exact half
Energies ==
    {t + o : t \in Thresholds, o \in (-Near)..Near}
        \cup {-5000, 5000, 25000, 50010, 50250, 60000, 137500, 700000}

\* two energies to bill, and which way the float rounds a half for each
InitBill ==
    /\ \E a \in Energies : \E b \in Energies : \E ua \in BOOLEAN : \E ub \in BOOLEAN :
          /\ a = b => ua = ub
          /\ view = [op |-> "ask", a |-> a, b |-> b, ua |-> ua, ub |-> ub]
    /\ store = <<>>
    /\ nextId = 1
    /\ now = StartNow
    /\ tz_aware = FALSE
    /\ sys_offset = 0
    /\ pc = [p \in Scanners |-> "idle"]
    /\ docs = [p \in Scanners |-> <<>>]
    /\ idx = [p \in Scanners |-> 0]
    /\ now_local = [p \in Scanners |-> PyNone]
    /\ res = [p \in Scanners |-> "none"]
    /\ scan_result = [p \in Scanners |-> [how |-> "none", at |-> 0]]
    /\ inactive_at_start = [p \in Scanners |-> {}]
    /\ trail = [p \in Scanners |-> NoTrail]
    /\ fires = [i \in Ids |-> [d \in Days |-> 0]]
    /\ logs = [i \in Ids |-> <<>>]
    /\ last_call = Call("none", "ok", "None", NoRequest, 0, FALSE)
    /\ readings = NoReadings

\* the variables of the schedule side
schedVars == <<store, nextId, now, tz_aware, sys_offset, fires, logs, last_call>>

\* the bill of both energies
Bill ==
    /\ view.op = "ask"
    /\ view' = [op |-> "bill", a |-> view.a, b |-> view.b, ua |-> view.ua, ub |-> view.ub,
                ra |-> bd_domestic_bill(view.a, view.ua),
                rb |-> bd_domestic_bill(view.b, view.ub)]
    /\ UNCHANGED <<schedVars, scanVars, readings>>

SpecBill == InitBill /\ [][Bill]_vars

-----------------------------------------------------------------------------
(* Readings and the data frames made of them                                *)

\* a field a reading document does not have (NaN in the data frame)
NoValue == [has |-> FALSE, v |-> 0]

\* a number in a field
Val(n) == [has |-> TRUE, v |-> n]

\* a naive datetime with its microseconds: whole minutes since 1970-01-01
\* 00:00 and the microseconds within the minute
Stamp(min, us) == [min |-> min, us |-> us]

\* a reading document: timestamp (naive UTC), energy_kWh in thousandths of a
\* kWh, power in hundredths of a W, voltage in hundredths of a V
Reading(ts, energy, power, voltage) ==
    [timestamp |-> ts, energy_kWh |-> energy, power |-> power, voltage |-> voltage]

\* pd.DataFrame(docs): the rows in the order of docs; a column exists when
\* some document has the field
HasColumn(df, col) == \E k \in 1..Len(df) : df[k][col].has

\* df[col].max() and df[col].min(), which skip NaN, over the rows from k on
RECURSIVE ColMax(_, _, _, _)
ColMax(df, col, k, best) ==
    IF k > Len(df) THEN best
    ELSE IF ~df[k][col].has THEN ColMax(df, col, k + 1, best)
    ELSE IF ~best.has THEN ColMax(df, col, k + 1, df[k][col])
    ELSE ColMax(df, col, k + 1, Val(Max2(best.v, df[k][col].v)))

RECURSIVE ColMin(_, _, _, _)
ColMin(df, col, k, best) ==
    IF k > Len(df) THEN best
    ELSE IF ~df[k][col].has THEN ColMin(df, col, k + 1, best)
    ELSE IF ~best.has THEN ColMin(df, col, k + 1, df[k][col])
    ELSE ColMin(df, col, k + 1, Val(Min2(best.v, df[k][col].v)))

\* mutant: the column maximum alone
units_between_FromZero(df) ==
    IF df = <<>> \/ ~HasColumn(df, "energy_kWh") THEN 0
    ELSE ColMax(df, "energy_kWh", 1, NoValue).v

\* mutant: last row minus first row
units_between_LastFirst(df) ==
    IF df = <<>> \/ ~HasColumn(df, "energy_kWh") THEN 0
    ELSE IF ~df[Len(df)].energy_kWh.has \/ ~df[1].energy_kWh.has THEN 0
    ELSE df[Len(df)].energy_kWh.v - df[1].energy_kWh.v

\* _units_between(df)
units_between(df) ==
    IF df = <<>> \/ ~HasColumn(df, "energy_kWh") THEN 0
    ELSE ColMax(df, "energy_kWh", 1, NoValue).v - ColMin(df, "energy_kWh", 1, NoValue).v

\* cumulative energies a reading may carry, or none
EnergyValues == {NoValue, Val(0), Val(1200), Val(50010)}

\* the data frames of up to MaxRows rows handed to _units_between
RECURSIVE FramesOf(_)
FramesOf(n) ==
    IF n = 0 THEN {<<>>}
    ELSE LET shorter == FramesOf(n - 1)
         IN  shorter \cup
             {Append(df, Reading(Stamp(Len(df), 0), e, Val(0), NoValue)) :
                 df \in {f \in shorter : Len(f) = n - 1}, e \in EnergyValues}

InitUnits ==
    /\ \E df \in FramesOf(MaxRows) : view = [op |-> "frame", df |-> df]
    /\ store = <<>>
    /\ nextId = 1
    /\ now = StartNow
    /\ tz_aware = FALSE
    /\ sys_offset = 0
    /\ pc = [p \in Scanners |-> "idle"]
    /\ docs = [p \in Scanners |-> <<>>]
    /\ idx = [p \in Scanners |-> 0]
    /\ now_local = [p \in Scanners |-> PyNone]
    /\ res = [p \in Scanners |-> "none"]
    /\ scan_result = [p \in Scanners |-> [how |-> "none", at |-> 0]]
    /\ inactive_at_start = [p \in Scanners |-> {}]
    /\ trail = [p \in Scanners |-> NoTrail]
    /\ fires = [i \in Ids |-> [d \in Days |-> 0]]
    /\ logs = [i \in Ids |-> <<>>]
    /\ last_call = Call("none", "ok", "None", NoRequest, 0, FALSE)
    /\ readings = NoReadings

\* the units of the frame
Units ==
    /\ view.op = "frame"
    /\ view' = [op |-> "units", df |-> view.df, units |-> units_between(view.df)]
    /\ UNCHANGED <<schedVars, scanVars, readings>>

SpecUnits == InitUnits /\ [][Units]_vars

-----------------------------------------------------------------------------
(* Windows of the billing queries and the readings they select              *)

\* the years the calendar of the model covers
Years == 2023..2025

\* now.year, now.month, now.day of a day number
CivilOf(day) ==
    LET y == CHOOSE yy \in Years :
                 DaysFromCivil(yy, 1, 1) <= day /\ day < DaysFromCivil(yy + 1, 1, 1)
        m == CHOOSE mm \in 1..12 :
                 /\ DaysFromCivil(y, mm, 1) <= day
                 /\ day < DaysFromCivil(y, mm, 1) + DaysInMonth(y, mm)
    IN  [y |-> y, m |-> m, d |-> day - DaysFromCivil(y, m, 1) + 1]

\* a <= b for datetimes of one kind
Leq(a, b) == a.min < b.min \/ (a.min = b.min /\ a.us <= b.us)

\* a local (UTC+6) wall time: y-m-d hh:mm and the microseconds of the minute
LocalStamp(y, m, d, hh, mm, us) ==
    Stamp(DaysFromCivil(y, m, d) * MinutesPerDay + hh * 60 + mm, us)

\* x.astimezone(timezone.utc).replace(tzinfo=None) of an aware UTC+6 datetime
naive_utc(x) == Stamp(x.min - dhaka_tz, x.us)

\* a BSON date holds milliseconds: the microseconds beyond them are dropped
bson_ms(x) == Stamp(x.min, (x.us \div 1000) * 1000)

\* mutant: the day is taken from the UTC date of now
day_window_local_UtcDay(nw) ==
    LET c           == CivilOf(naive_utc(nw).min \div MinutesPerDay)
        day_start   == LocalStamp(c.y, c.m, c.d, 0, 0, 0)
        day_end     == Stamp(day_start.min + 23 * 60 + 59, 59999999)
    IN  <<day_start, day_end>>

\* _day_window_local(now)
day_window_local(nw) ==
    LET c               == CivilOf(nw.min \div MinutesPerDay)
        day_start_local == LocalStamp(c.y, c.m, c.d, 0, 0, 0)
        day_end_local   == Stamp(day_start_local.min + 23 * 60 + 59, 59999999)
    IN  <<naive_utc(day_start_local), naive_utc(day_end_local)>>

\* mutant: December has no branch of its own year
month_window_local_SameYear(nw) ==
    LET c                == CivilOf(nw.min \div MinutesPerDay)
        m_start_local    == LocalStamp(c.y, c.m, 1, 0, 0, 0)
        next_month_local == IF c.m = 12 THEN LocalStamp(c.y, 1, 1, 0, 0, 0)
                            ELSE LocalStamp(c.y, c.m + 1, 1, 0, 0, 0)
    IN  <<naive_utc(m_start_local), naive_utc(next_month_local)>>

\* mutant: the month ends where today begins
month_window_local_BeforeToday(nw) ==
    LET c             == CivilOf(nw.min \div MinutesPerDay)
        m_start_local == LocalStamp(c.y, c.m, 1, 0, 0, 0)
        today_local   == LocalStamp(c.y, c.m, c.d, 0, 0, 0)
    IN  <<naive_utc(m_start_local), naive_utc(today_local)>>

\* _month_window_local(now)
month_window_local(nw) ==
    LET c                == CivilOf(nw.min \div MinutesPerDay)
        m_start_local    == LocalStamp(c.y, c.m, 1, 0, 0, 0)
        next_month_local == IF c.m = 12 THEN LocalStamp(c.y + 1, 1, 1, 0, 0, 0)
                            ELSE LocalStamp(c.y, c.m + 1, 1, 0, 0, 0)
    IN  <<naive_utc(m_start_local), naive_utc(next_month_local)>>

\* sort("timestamp", ASCENDING): the earliest first
RECURSIVE Ascending(_)
Ascending(rs) ==
    IF rs = {} THEN <<>>
    ELSE LET first == CHOOSE r \in rs : \A o \in rs : Leq(r.timestamp, o.timestamp)
         IN  <<first>> \o Ascending(rs \ {first})

\* mutant: the query has no condition on the timestamp
range_docs_NoWindow(d, start, end, st) ==
    IF st # "ok" THEN <<>>
    ELSE Ascending(readings[d])

\* range_docs(device_id, start, end): an empty frame without a client, on
\* PyMongoError or when nothing matches {"$gte": start, "$lte": end}
range_docs(d, start, end, st) ==
    IF st # "ok" THEN <<>>
    ELSE Ascending({r \in readings[d] :
                       /\ Leq(bson_ms(start), r.timestamp)
                       /\ Leq(r.timestamp, bson_ms(end))})

\* the exception a query on the collection meets in a state of storage
QueryError(st) == IF st = "error" THEN "PyMongoError" ELSE "none"

\* mutant: the queries have no except clause
propagates_NoExcept(exc) == exc # "none"

\* whether an exception leaves latest_docs or range_docs: "except PyMongoError"
propagates(exc) == exc \notin {"none", "PyMongoError"}

\* whether a function that queries the devices dev_ids raises to its caller
RECURSIVE raises(_, _)
raises(dev_ids, st) ==
    IF dev_ids = <<>> THEN FALSE
    ELSE propagates(QueryError(st[Head(dev_ids)])) \/ raises(Tail(dev_ids), st)

\* insert_reading(device_id, doc): the aware timestamp goes in as naive UTC
insert_reading(d, doc) ==
    [readings EXCEPT ![d] = @ \cup {[doc EXCEPT !.timestamp = bson_ms(naive_utc(@))]}]

\* round(x, 3) of an energy: thousandths of a kWh are what the model counts in
Round3(units) == units

\* daily_monthly_for(device_id) at clock reading nw; st is the state of
\* storage met by the query of the day, stm by the query of the month
daily_monthly_for(d, nw, st, stm, up) ==
    LET dw      == day_window_local(nw)
        mw      == month_window_local(nw)
        d_units == Round3(units_between(range_docs(d, dw[1], dw[2], st)))
        m_units == Round3(units_between(range_docs(d, mw[1], mw[2], stm)))
    IN  [op |-> "daily_monthly", device |-> d, now |-> nw, st |-> st, st_m |-> stm,
         day_start |-> dw[1], day_end |-> dw[2], m_start |-> mw[1], m_end |-> mw[2],
         d_units |-> d_units, d_cost |-> bd_domestic_bill(d_units, up),
         m_units |-> m_units, m_cost |-> bd_domestic_bill(m_units, up),
         raised |-> raises(<<d>>, [x \in Devices |-> st])
                        \/ raises(<<d>>, [x \in Devices |-> stm])]

\* when the collector stamps a reading (local time)
ReadingStamps ==
    { LocalStamp(2024, 1, 31, 12, 0, 0),
      LocalStamp(2024, 1, 31, 23, 59, 59999999),
      LocalStamp(2024, 2, 1, 0, 0, 0),
      LocalStamp(2024, 2, 1, 0, 0, 1) }

\* when the dashboard computes (local time)
NowStamps ==
    { LocalStamp(2024, 1, 31, 3, 0, 0),
      LocalStamp(2024, 1, 31, 23, 59, 59999999),
      LocalStamp(2024, 2, 1, 0, 0, 0),
      LocalStamp(2024, 2, 29, 5, 59, 59999999),
      LocalStamp(2023, 12, 31, 23, 59, 59999999),
      LocalStamp(2024, 12, 1, 6, 0, 0) }

\* cumulative energies of the readings
MeterValues == {Val(1200), Val(50010)}

InitWindow ==
    /\ view = NoView
    /\ store = <<>>
    /\ nextId = 1
    /\ now = StartNow
    /\ tz_aware = FALSE
    /\ sys_offset = 0
    /\ pc = [p \in Scanners |-> "idle"]
    /\ docs = [p \in Scanners |-> <<>>]
    /\ idx = [p \in Scanners |-> 0]
    /\ now_local = [p \in Scanners |-> PyNone]
    /\ res = [p \in Scanners |-> "none"]
    /\ scan_result = [p \in Scanners |-> [how |-> "none", at |-> 0]]
    /\ inactive_at_start = [p \in Scanners |-> {}]
    /\ trail = [p \in Scanners |-> NoTrail]
    /\ fires = [i \in Ids |-> [d \in Days |-> 0]]
    /\ logs = [i \in Ids |-> <<>>]
    /\ last_call = Call("none", "ok", "None", NoRequest, 0, FALSE)
    /\ readings = NoReadings

\* the collector stores a reading of plug1, before the dashboard computes
InsertReading ==
    \E ts \in ReadingStamps : \E e \in MeterValues :
        /\ view = NoView
        /\ Cardinality(readings["plug1"]) < MaxReadings
        /\ readings' = insert_reading("plug1", Reading(ts, e, Val(0), NoValue))
        /\ UNCHANGED <<schedVars, scanVars, view>>

\* the dashboard asks for today's and this month's consumption of plug1
DailyMonthly ==
    \E nw \in NowStamps : \E up \in BOOLEAN :
        /\ view' = daily_monthly_for("plug1", nw, "ok", "ok", up)
        /\ UNCHANGED <<schedVars, scanVars, readings>>

NextWindow ==
    \/ InsertReading
    \/ DailyMonthly

SpecWindow == InitWindow /\ [][NextWindow]_vars

\* readings stored per device for the bill of one day
MaxDayReadings == 4

\* readings of plug1 the collector may have stored (local stamps): four times
\* of 2024-01-31 with the meter at 100.0 or 103.5 kWh, one of the evening
\* before and one of the night after
DayReadings ==
    { Reading(LocalStamp(2024, 1, 31, hh, 0, 0), e, Val(0), NoValue) :
          hh \in {8, 10, 14, 20}, e \in {Val(100000), Val(103500)} }
    \cup { Reading(LocalStamp(2024, 1, 30, 23, 0, 0), Val(90000), Val(0), NoValue),
           Reading(LocalStamp(2024, 2, 1, 0, 30, 0), Val(110000), Val(0), NoValue) }

\* the collector stores a reading of plug1, before the dashboard computes
InsertDay ==
    \E r \in DayReadings :
        /\ view = NoView
        /\ Cardinality(readings["plug1"]) < MaxDayReadings
        /\ readings' = insert_reading("plug1", r)
        /\ UNCHANGED <<schedVars, scanVars, view>>

\* the dashboard asks for today's bill of plug1 in the evening of 2024-01-31
BillToday ==
    \E up \in BOOLEAN :
        /\ view = NoView
        /\ view' = daily_monthly_for("plug1", LocalStamp(2024, 1, 31, 21, 0, 0), "ok", "ok", up)
        /\ UNCHANGED <<schedVars, scanVars, readings>>

NextDay ==
    \/ InsertDay
    \/ BillToday

SpecDay == InitWindow /\ [][NextDay]_vars

-----------------------------------------------------------------------------
(* Totals of the building: aggregate_totals_all_devices *)

\* latest_docs(device_id, n=1): the frames find({}, sort timestamp DESCENDING,
\* limit 1) may give.  One row, a reading no other reading is later than (the
\* order among equal timestamps is the server's); an empty frame without a
\* client, on PyMongoError or for an empty collection
latest_docs(d, st) ==
    IF st # "ok" \/ readings[d] = {} THEN {<<>>}
    ELSE {<<r>> : r \in {x \in readings[d] :
                            \A o \in readings[d] : Leq(o.timestamp, x.timestamp)}}

\* _latest_power_voltage(device_id), of the frame latest_docs returned
latest_power_voltage(df) ==
    IF df = <<>> THEN [p |-> 0, v |-> NoValue]
    ELSE LET row == df[Len(df)]
         IN  [p |-> IF row.power.has THEN row.power.v ELSE 0, v |-> row.voltage]

\* the loop "total_power_now += p" over dev_ids
RECURSIVE total_power_now(_, _)
total_power_now(dev_ids, latest) ==
    IF dev_ids = <<>> THEN 0
    ELSE latest_power_voltage(latest[Head(dev_ids)]).p
            + total_power_now(Tail(dev_ids), latest)

\* the list latest_voltages the same loop collects
RECURSIVE latest_voltages(_, _)
latest_voltages(dev_ids, latest) ==
    IF dev_ids = <<>> THEN <<>>
    ELSE LET v == latest_power_voltage(latest[Head(dev_ids)]).v
         IN  (IF v.has THEN <<v.v>> ELSE <<>>) \o latest_voltages(Tail(dev_ids), latest)

\* max(xs) of a non-empty list
RECURSIVE ListMax(_)
ListMax(xs) == IF Len(xs) = 1 THEN xs[1] ELSE Max2(xs[1], ListMax(Tail(xs)))

\* sum(xs) of a list
RECURSIVE ListSum(_)
ListSum(xs) == IF xs = <<>> THEN 0 ELSE xs[1] + ListSum(Tail(xs))

\* mutant: the voltages are added up
present_voltage_Sum(vs) == IF vs # <<>> THEN ListSum(vs) ELSE 0

\* present_voltage = round(max(latest_voltages), 2) if latest_voltages else 0.0
present_voltage(vs) == IF vs # <<>> THEN ListMax(vs) ELSE 0

\* the loop "total_kwh += _units_between(range_docs(did, start, end))"
RECURSIVE total_kwh(_, _, _, _)
total_kwh(dev_ids, start, end, st) ==
    IF dev_ids = <<>> THEN 0
    ELSE units_between(range_docs(Head(dev_ids), start, end, st[Head(dev_ids)]))
            + total_kwh(Tail(dev_ids), start, end, st)

\* mutant: every device is billed on its own and the bills are added up
RECURSIVE window_bill_PerDevice(_, _, _, _, _)
window_bill_PerDevice(dev_ids, start, end, st, up) ==
    IF dev_ids = <<>> THEN 0
    ELSE bd_domestic_bill(
             Round3(units_between(range_docs(Head(dev_ids), start, end, st[Head(dev_ids)]))), up)
            + window_bill_PerDevice(Tail(dev_ids), start, end, st, up)

\* _bd_domestic_bill(round(total_kwh, 3)) of a window
window_bill(dev_ids, start, end, st, up) ==
    bd_domestic_bill(Round3(total_kwh(dev_ids, start, end, st)), up)

\* aggregate_totals_all_devices(devices) at clock reading nw; st is the state
\* of storage met for each device by latest_docs and the query of the day, stm
\* by the query of the month, and latest the frame latest_docs gave for it
aggregate_totals_all_devices(dev_ids, nw, st, stm, up, latest) ==
    LET dw == day_window_local(nw)
        mw == month_window_local(nw)
    IN  [op |-> "totals", devices |-> dev_ids, now |-> nw, st |-> st, st_m |-> stm,
         latest |-> latest,
         power      |-> total_power_now(dev_ids, latest),
         voltage    |-> present_voltage(latest_voltages(dev_ids, latest)),
         kwh_today  |-> Round3(total_kwh(dev_ids, dw[1], dw[2], st)),
         bill_today |-> window_bill(dev_ids, dw[1], dw[2], st, up),
         kwh_month  |-> Round3(total_kwh(dev_ids, mw[1], mw[2], stm)),
         bill_month |-> window_bill(dev_ids, mw[1], mw[2], stm, up),
         raised     |-> raises(dev_ids, st) \/ raises(dev_ids, stm)]

\* readings the collector may have stored (local stamps; power and voltage in
\* hundredths): one of an earlier day of the month and four of today, two of
\* them stamped alike
TotalsReadings ==
    { Reading(LocalStamp(2024, 1, 10, 9, 0, 0), Val(0), Val(500), Val(22000)),
      Reading(LocalStamp(2024, 1, 31, 8, 0, 0), Val(0), Val(0), NoValue),
      Reading(LocalStamp(2024, 1, 31, 8, 0, 0), Val(2), Val(12550), Val(22910)),
      Reading(LocalStamp(2024, 1, 31, 9, 0, 0), Val(30000), Val(4000), Val(23150)),
      Reading(LocalStamp(2024, 1, 31, 9, 0, 0), Val(75000), NoValue, Val(22000)) }

\* when the dashboard computes the totals (local time)
TotalsNow == LocalStamp(2024, 1, 31, 18, 0, 0)

\* the days of the history the dashboard asks the series of (local dates)
HistoryDays == {LocalStamp(2024, 1, 10, 0, 0, 0), LocalStamp(2024, 1, 31, 0, 0, 0)}

\* the lists of devices the dashboard passes
DeviceLists == {<<>>, <<"plug1">>, <<"plug2">>, <<"plug1", "plug2">>}

InitTotals ==
    /\ view = NoView
    /\ store = <<>>
    /\ nextId = 1
    /\ now = StartNow
    /\ tz_aware = FALSE
    /\ sys_offset \in SystemOffsets
    /\ pc = [p \in Scanners |-> "idle"]
    /\ docs = [p \in Scanners |-> <<>>]
    /\ idx = [p \in Scanners |-> 0]
    /\ now_local = [p \in Scanners |-> PyNone]
    /\ res = [p \in Scanners |-> "none"]
    /\ scan_result = [p \in Scanners |-> [how |-> "none", at |-> 0]]
    /\ inactive_at_start = [p \in Scanners |-> {}]
    /\ trail = [p \in Scanners |-> NoTrail]
    /\ fires = [i \in Ids |-> [d \in Days |-> 0]]
    /\ logs = [i \in Ids |-> <<>>]
    /\ last_call = Call("none", "ok", "None", NoRequest, 0, FALSE)
    /\ readings = NoReadings

\* the collector stores a reading of a device, before the dashboard computes
InsertTotals ==
    \E d \in Devices : \E r \in TotalsReadings :
        /\ view = NoView
        /\ Cardinality(readings[d]) < MaxReadings
        /\ readings' = insert_reading(d, r)
        /\ UNCHANGED <<schedVars, scanVars, view>>

\* the dashboard asks for the totals of a list of devices; what it is shown
\* does not depend on what it was shown before, so one request is followed;
\* each device's storage is in one state for all the queries of the request
Totals ==
    \E dev_ids \in DeviceLists : \E st \in [Devices -> StoreStates] : \E up \in BOOLEAN :
        \E latest \in [Devices -> UNION {latest_docs(d, st[d]) : d \in Devices}] :
            /\ view = NoView
            /\ \A d \in Devices : latest[d] \in latest_docs(d, st[d])
            /\ view' = aggregate_totals_all_devices(dev_ids, TotalsNow, st, st, up, latest)
            /\ UNCHANGED <<schedVars, scanVars, readings>>

-----------------------------------------------------------------------------
(* Today against this month, each query with its own state of storage *)

\* readings of the second device: one at noon of 2024-01-31, one just after
\* the month has turned
OtherReadings ==
    { Reading(LocalStamp(2024, 1, 31, 12, 0, 0), Val(1200), Val(0), NoValue),
      Reading(LocalStamp(2024, 2, 1, 0, 0, 1), Val(50010), Val(0), NoValue) }

\* the collector stores a reading of plug2, before the dashboard computes
InsertOther ==
    \E r \in OtherReadings :
        /\ view = NoView
        /\ readings' = insert_reading("plug2", r)
        /\ UNCHANGED <<schedVars, scanVars, view>>

\* a query either goes through or comes back empty
QueryStates == {"ok", "error"}

\* the last instant of a month and the first of the next (local time)
TurnOfMonth ==
    { LocalStamp(2024, 1, 31, 23, 59, 59999999), LocalStamp(2024, 2, 1, 0, 0, 0) }

\* the dashboard asks for today's and this month's consumption of a device
MonthDaily ==
    \E d \in Devices : \E nw \in NowStamps : \E st, stm \in QueryStates : \E up \in BOOLEAN :
        /\ view = NoView
        /\ view' = daily_monthly_for(d, nw, st, stm, up)
        /\ UNCHANGED <<schedVars, scanVars, readings>>

\* the dashboard asks for the totals of a list of devices
MonthTotals ==
    \E dev_ids \in {<<"plug1">>, <<"plug1", "plug2">>} : \E nw \in TurnOfMonth :
      \E up \in BOOLEAN :
        \E st, stm \in [Devices -> QueryStates] :
            \E latest \in [Devices -> UNION {latest_docs(d, st[d]) : d \in Devices}] :
                /\ view = NoView
                /\ \A d \in Devices : latest[d] \in latest_docs(d, st[d])
                /\ view' = aggregate_totals_all_devices(dev_ids, nw, st, stm, up, latest)
                /\ UNCHANGED <<schedVars, scanVars, readings>>

NextMonth ==
    \/ InsertReading
    \/ InsertOther
    \/ MonthDaily
    \/ MonthTotals

SpecMonth == InitWindow /\ [][NextMonth]_vars

-----------------------------------------------------------------------------
(* The time series of the last 24 hours: aggregate_timeseries_24h *)

\* a fraction n/d in lowest terms (the means of the resampled frames)
RECURSIVE GCD(_, _)
GCD(a, b) == IF b = 0 THEN a ELSE GCD(b, a % b)

Rat(n, d) == IF n = 0 THEN [n |-> 0, d |-> 1] ELSE [n |-> n \div GCD(n, d), d |-> d \div GCD(n, d)]

RatAdd(a, b) == Rat(a.n * b.d + b.n * a.d, a.d * b.d)

\* NaN and a number, in a cell of a resampled frame
NaN == [has |-> FALSE, n |-> 0, d |-> 1]
Num(r) == [has |-> TRUE, n |-> r.n, d |-> r.d]

\* the width of a bin of resample("5T"), in minutes
ResampleRule == 5

\* the bin of resample("5T") a timestamp falls in: its left edge
Bin(ts) == (ts.min \div ResampleRule) * ResampleRule

\* the values of column col in the rows of df that fall in bin b (NaN skipped)
RECURSIVE ValuesIn(_, _, _)
ValuesIn(df, col, b) ==
    IF df = <<>> THEN <<>>
    ELSE (IF Bin(df[1].timestamp) = b /\ df[1][col].has THEN <<df[1][col].v>> ELSE <<>>)
            \o ValuesIn(Tail(df), col, b)

\* df.resample(rule).mean(numeric_only=True): the cell of column col in bin b
BinMean(df, col, b) ==
    LET vals == ValuesIn(df, col, b)
    IN  IF vals = <<>> THEN NaN ELSE Num(Rat(ListSum(vals), Len(vals)))

\* the list frames: the frame of every device whose window has rows
RECURSIVE frames_of(_, _, _, _)
frames_of(dev_ids, start, end, st) ==
    IF dev_ids = <<>> THEN <<>>
    ELSE LET df == range_docs(Head(dev_ids), start, end, st[Head(dev_ids)])
         IN  (IF df = <<>> THEN <<>> ELSE <<df>>) \o frames_of(Tail(dev_ids), start, end, st)

\* the cells of column col in bin b across the frames that are numbers
RECURSIVE CellsOf(_, _, _)
CellsOf(frames, col, b) ==
    IF frames = <<>> THEN <<>>
    ELSE LET c == BinMean(frames[1], col, b)
         IN  (IF c.has THEN <<c>> ELSE <<>>) \o CellsOf(Tail(frames), col, b)

\* the sum of a list of fractions
RECURSIVE RatSum(_)
RatSum(cs) == IF cs = <<>> THEN Rat(0, 1) ELSE RatAdd(cs[1], RatSum(Tail(cs)))

\* aligned[power_cols].sum(axis=1, min_count=1) in bin b
\* mutant: the sum without min_count, 0 over no number
power_sum_W_Zero(frames, b) ==
    Num(RatSum(CellsOf(frames, "power", b)))

power_sum_W(frames, b) ==
    LET cs == CellsOf(frames, "power", b)
    IN  IF cs = <<>> THEN NaN ELSE Num(RatSum(cs))

\* aligned[voltage_cols].mean(axis=1) in bin b
voltage_avg_V(frames, b) ==
    LET cs == CellsOf(frames, "voltage", b)
        s  == RatSum(cs)
    IN  IF cs = <<>> THEN NaN ELSE Num(Rat(s.n, s.d * Len(cs)))

\* the rows of out, bin after bin: dropna(how="all") leaves out a bin in which
\* both cells are NaN
RECURSIVE RowsOf(_, _)
RowsOf(frames, bins) ==
    IF bins = {} THEN <<>>
    ELSE LET b == CHOOSE x \in bins : \A y \in bins : x <= y
             p == power_sum_W(frames, b)
             v == voltage_avg_V(frames, b)
         IN  (IF p.has \/ v.has
              THEN <<[timestamp |-> b, power_sum_W |-> p, voltage_avg_V |-> v]>>
              ELSE <<>>) \o RowsOf(frames, bins \ {b})

\* datetime.now() of the host: the wall clock of its own zone, zone-less
naive_now(nw) == Stamp(nw.min - dhaka_tz + sys_offset, nw.us)

\* aggregate_timeseries_24h(devices) when the host's datetime.now() gives end
aggregate_timeseries_24h(dev_ids, end, st) ==
    LET start  == Stamp(end.min - MinutesPerDay, end.us)
        frames == frames_of(dev_ids, start, end, st)
    IN  [op |-> "series", devices |-> dev_ids, st |-> st, start |-> start, end |-> end,
         raised |-> raises(dev_ids, st),
         out |-> IF frames = <<>> THEN <<>>
                 ELSE RowsOf(frames, UNION {{Bin(frames[k][j].timestamp) : j \in 1..Len(frames[k])} :
                                           k \in 1..Len(frames)})]

\* aggregate_timeseries_for_day(devices, day_local) with the default rule: the
\* same steps over the local day of day_local
aggregate_timeseries_for_day(dev_ids, day_local, st) ==
    LET w      == day_window_local(day_local)
        frames == frames_of(dev_ids, w[1], w[2], st)
    IN  [op |-> "series", devices |-> dev_ids, st |-> st, start |-> w[1], end |-> w[2],
         raised |-> dev_ids # <<>> /\ raises(dev_ids, st),
         out |-> IF dev_ids = <<>> \/ frames = <<>> THEN <<>>
                 ELSE RowsOf(frames, UNION {{Bin(frames[k][j].timestamp) : j \in 1..Len(frames[k])} :
                                           k \in 1..Len(frames)})]

\* the dashboard asks for today's and this month's consumption of a device
DailyMonthlyOf ==
    \E d \in Devices : \E st, stm \in StoreStates : \E up \in BOOLEAN :
        /\ view = NoView
        /\ view' = daily_monthly_for(d, TotalsNow, st, stm, up)
        /\ UNCHANGED <<schedVars, scanVars, readings>>

\* the dashboard asks for the series of the last 24 hours
TimeSeries ==
    \E dev_ids \in DeviceLists : \E st \in [Devices -> StoreStates] :
        /\ view = NoView
        /\ view' = aggregate_timeseries_24h(dev_ids, naive_now(TotalsNow), st)
        /\ UNCHANGED <<schedVars, scanVars, readings>>

\* the dashboard asks for the series of a day of the history
TimeSeriesForDay ==
    \E dev_ids \in DeviceLists : \E st \in [Devices -> StoreStates] :
        \E day \in HistoryDays :
            /\ view = NoView
            /\ view' = aggregate_timeseries_for_day(dev_ids, day, st)
            /\ UNCHANGED <<schedVars, scanVars, readings>>

NextTotals ==
    \/ InsertTotals
    \/ Totals
    \/ DailyMonthlyOf
    \/ TimeSeries

SpecTotals == InitTotals /\ [][NextTotals]_vars

\* the two series of the dashboard over the same readings
NextSeries ==
    \/ InsertTotals
    \/ TimeSeries
    \/ TimeSeriesForDay

SpecSeries == InitTotals /\ [][NextSeries]_vars

-----------------------------------------------------------------------------
(* Notions the properties are stated in *)

RECURSIVE FiresFrom(_, _)
FiresFrom(i, d) == IF d \notin Days THEN 0 ELSE fires[i][d] + FiresFrom(i, d + 1)

\* commands attempted for schedule i so far
TotalFires(i) == FiresFrom(i, Day0)

\* the _ids of the documents invocation p read at its start
SnapshotIds(p) == {docs[p][k].id : k \in 1..Len(docs[p])}

\* invocation p makes its last step and returns to its caller normally
ReturnsNormally(p) == pc[p] # "idle" /\ pc'[p] = "idle" /\ scan_result'[p].how = "returned"

\* invocation p makes its last step, normally or by an exception
Ends(p) == pc[p] # "idle" /\ pc'[p] = "idle"

\* the occurrence of a ONCE schedule that create_schedule wrote
Occurrence(doc) ==
    DhakaDT(doc.date.parts[1].v, doc.date.parts[2].v, doc.date.parts[3].v,
            doc.time_str.parts[1].v, doc.time_str.parts[2].v)

\* today @ timeOfDay of a WEEKLY schedule that create_schedule wrote, for a scan
WeeklyDueAt(doc, nl) ==
    /\ Weekday(DateOf(nl)) \in doc.weekdays.days
    /\ nl.wall >= DateOf(nl) * MinutesPerDay
                  + doc.time_str.parts[1].v * 60 + doc.time_str.parts[2].v

\* commands so far for the occurrence of schedule i that day d belongs to
OccurrenceFires(i, d) == IF store[i].kind = "once" THEN TotalFires(i) ELSE fires[i][d]

\* the result of the last command logged for schedule i
LastLogged(i) == IF logs[i] = <<>> THEN "none" ELSE logs[i][Len(logs[i])].result

\* a document with every field as create_schedule writes it (last_run_at aside)
WellFormed(doc) ==
    /\ doc.device_id # NoKey
    /\ doc.action \in {"on", "off"}
    /\ doc.kind \in {"once", "weekly"}
    /\ doc.time_str.t = "str" /\ Len(doc.time_str.parts) = 2 /\ AllInt(doc.time_str.parts)
    /\ doc.time_str.parts[1].v \in 0..23 /\ doc.time_str.parts[2].v \in 0..59
    /\ doc.last_run_at.k \in {"null", "date"}
    /\ doc.kind = "once" =>
          /\ doc.date.t = "str" /\ Len(doc.date.parts) = 3 /\ AllInt(doc.date.parts)
          /\ ValidDateTime(doc.date.parts[1].v, doc.date.parts[2].v, doc.date.parts[3].v, 0, 0)
    /\ doc.kind = "weekly" => doc.weekdays.t = "list"

\* a step of an invocation of run_due_schedules
ScanStep == \E p \in Scanners : pc'[p] # pc[p]

\* the step leaves the set of schedules and every field but last_run_at alone
ScanFrame ==
    /\ DOMAIN store' = DOMAIN store
    /\ \A i \in DOMAIN store :
          [store'[i] EXCEPT !.last_run_at = store[i].last_run_at] = store[i]

\* an invocation has sent the command for schedule i and not yet written its marker
FiringInProgress(i) ==
    \E p \in Scanners : pc[p] \in {"log", "marker"} /\ CurDoc(p).id = i

MarkerAtOrAfterOccurrence(doc) ==
    /\ doc.last_run_at.k = "date"
    /\ doc.last_run_at.utc >= Instant(Occurrence(doc))

\* the times of day at which a scan may start
ClockPoints == {StartNow + k * TickMinutes : k \in 0..(4 * HorizonDays - 1)}

\* the step is invocation p writing the marker of schedule i
WritesMarker(p, i) == pc[p] = "marker" /\ pc'[p] # "marker" /\ CurDoc(p).id = i

NotEarlier(a, b) == a.k = "null" \/ (b.k = "date" /\ a.k = "date" /\ b.utc >= a.utc)

\* the conditions create_schedule is to reject
Invalid(req) ==
    \/ req.action \notin {"on", "off"}
    \/ req.kind \notin {"once", "weekly"}
    \/ (req.kind = "once" /\ req.date_value.none)

\* what the call returns when the store is reached and the call goes through
SuccessReturn(call) ==
    IF call.op = "create" THEN "id"
    ELSE IF call.op = "update" THEN UpdateOutcome(call.id, call.b, "ok")
    ELSE DeleteOutcome(call.id, "ok")

-----------------------------------------------------------------------------
(* Properties *)

\* C1: with one scan at a time and every marker write going through, a ONCE
\* schedule never gets more than one command, its marker is set exactly when
\* it has fired, and no call of run_due_schedules ends in an exception at it:
\* the first call at or after the occurrence fires it, every later call
\* completes without a command for it.
C1_OnceFiresExactlyOnce ==
    \A i \in DOMAIN store :
        store[i].kind = "once" =>
            /\ TotalFires(i) <= 1
            /\ pc[1] = "idle" => (TotalFires(i) = 1 <=> store[i].last_run_at # BNull)
            /\ \A p \in Scanners : scan_result[p].how = "raised" => scan_result[p].at # i

\* C2: with one scan at a time and every marker write going through, a WEEKLY
\* schedule gets at most one command per local day, and a scan that returns
\* after reading it active on a matching day at or after timeOfDay leaves
\* exactly one command for that day, whatever happened on earlier days.
C2_WeeklyOncePerMatchingDay ==
    [][\A i \in DOMAIN store :
          store[i].kind = "weekly" =>
              /\ \A d \in Days : fires'[i][d] <= 1
              /\ ( /\ ReturnsNormally(1)
                   /\ i \in SnapshotIds(1)
                   /\ WeeklyDueAt(store[i], now_local[1]) )
                 => fires'[i][DateOf(now_local[1])] = 1]_vars

\* C3: while a call of run_due_schedules that started with a schedule switched
\* off is in progress, none of its steps sends a command for that schedule,
\* logs for it or touches its last_run_at.
C3_InactiveNeverFires ==
    [][\A i \in inactive_at_start[1] :
          /\ fires'[i] = fires[i]
          /\ logs'[i] = logs[i]
          /\ store'[i].last_run_at = store[i].last_run_at]_vars

\* C3 witness: a scan that has sent a command for another schedule runs while
\* a switched-off schedule has a timing that would make it due.
C3_Witness ==
    \E i \in inactive_at_start[1] :
        /\ EvalDoc(store[i], now_local[1]) = "fire"
        /\ trail[1].attempted # {}

\* C4: the marker written after a command is the start of the scan whatever
\* the command returned, and a schedule whose last command for an occurrence
\* failed gets no further command for that occurrence.
C4_FailedCommandNotRetried ==
    [][/\ (pc[1] = "marker" /\ pc'[1] # "marker")
            => store'[CurDoc(1).id].last_run_at = bson_encode(now_local[1])
       /\ \A i \in DOMAIN store : \A d \in Days :
            (fires'[i][d] > fires[i][d] /\ OccurrenceFires(i, d) >= 1)
                => LastLogged(i) # "error"]_vars

\* C5: a scan in which a command failed still returns normally, having
\* attempted every schedule of its snapshot that was due and set its marker.
C5_CommandFailureDoesNotStopScan ==
    [][(Ends(1) /\ trail[1].failed # {}) =>
          /\ scan_result'[1].how = "returned"
          /\ \A k \in 1..Len(docs[1]) :
                EvalDoc(docs[1][k], now_local[1]) = "fire" =>
                    /\ docs[1][k].id \in trail[1].attempted
                    /\ store'[docs[1][k].id].last_run_at = bson_encode(now_local[1])]_vars

\* C6: with a malformed document in the store no call of run_due_schedules
\* ends in an exception, and every well-formed schedule of the snapshot that
\* was due has been attempted when the call ends.
C6_MalformedNeverBlocks ==
    [][Ends(1) =>
          /\ scan_result'[1].how = "returned"
          /\ \A k \in 1..Len(docs[1]) :
                (WellFormed(docs[1][k]) /\ EvalDoc(docs[1][k], now_local[1]) = "fire")
                    => docs[1][k].id \in trail[1].attempted]_vars

\* C7 as written: a step of run_due_schedules neither adds nor removes a
\* schedule and changes no field but last_run_at, and a ONCE schedule that
\* has fired (no firing of it in progress) has last_run_at at or after its
\* occurrence.
C7_FiredOnceInert ==
    [][/\ ScanStep => ScanFrame
       /\ \A i \in DOMAIN store' :
            (store'[i].kind = "once" /\ (TotalFires(i))' >= 1 /\ ~(FiringInProgress(i))')
                => MarkerAtOrAfterOccurrence(store'[i])]_vars

\* C7 amended: a step of run_due_schedules neither adds nor removes a schedule
\* and changes no field but last_run_at, and a ONCE schedule whose marker has
\* been written has it at or after its occurrence, so that no later scan
\* reading it finds it due.
C7_MarkedOnceInert ==
    [][/\ ScanStep => ScanFrame
       /\ \A i \in DOMAIN store' :
            (store'[i].kind = "once" /\ store'[i].last_run_at # BNull)
                => /\ MarkerAtOrAfterOccurrence(store'[i])
                   /\ \A t \in ClockPoints :
                        EvalDoc(store'[i], PyDT(TRUE, t, dhaka_tz)) # "fire"]_vars

C7_Witness ==
    \E i \in DOMAIN store :
        /\ store[i].kind = "once"
        /\ TotalFires(i) >= 1
        /\ store[i].last_run_at # BNull
        /\ \A p \in Scanners : pc[p] = "idle"

\* C8: last_run_at of a schedule changes only by the marker write
\* of run_due_schedules, and never to an earlier time.
C8_MarkerNeverMovesBack ==
    [][\A i \in DOMAIN store \cap DOMAIN store' :
          store'[i].last_run_at # store[i].last_run_at =>
              \E p \in Scanners :
                  /\ WritesMarker(p, i)
                  /\ NotEarlier(store[i].last_run_at, store'[i].last_run_at)]_vars

\* C9: a call of create_schedule with an action other than on/off, a kind
\* other than once/weekly, or kind once without a date does not return an id
\* and leaves the store as it was.
C9_InvalidCreateRejected ==
    [][(last_call' # last_call /\ last_call'.op = "create" /\ Invalid(last_call'.req))
          => /\ last_call'.ret # "id"
             /\ store' = store
             /\ nextId' = nextId]_vars

C9_Witness ==
    /\ last_call.op = "create"
    /\ last_call.st = "ok"
    /\ Invalid(last_call.req)
    /\ last_call.ret = "ValueError"

\* C10 as written: with the store unreachable, create_schedule,
\* update_schedule_active and delete_schedule leave the store as it was and
\* return something the caller can tell from what they return on success.
C10_OutageToldApart ==
    [][(last_call' # last_call /\ last_call'.st # "ok")
          => /\ store' = store
             /\ nextId' = nextId
             /\ last_call'.ret # SuccessReturn(last_call')]_vars

\* C10 amended: with the store unreachable the three calls leave the store as
\* it was; create_schedule returns None or raises its validation error, never
\* an id, while update_schedule_active and delete_schedule return None, which
\* is also what they return on success.
C10_OutageLeavesStore ==
    [][(last_call' # last_call /\ last_call'.st # "ok")
          => /\ store' = store
             /\ nextId' = nextId
             /\ last_call'.op = "create"
                  => (last_call'.ret \in {"None", "ValueError"}
                      /\ last_call'.ret # SuccessReturn(last_call'))
             /\ last_call'.op \in {"update", "delete"}
                  => (last_call'.ret = "None"
                      /\ last_call'.ret = SuccessReturn(last_call'))]_vars

C10_Witness ==
    /\ last_call.op = "update"
    /\ last_call.st # "ok"
    /\ last_call.id \in DOMAIN store
    /\ store[last_call.id].is_active # last_call.b

\* the record shows the inputs of the request for device d, switched on and not yet run
ShowsRequest(doc, d, req) ==
    /\ doc.device_id = d
    /\ doc.action = req.action
    /\ doc.kind = req.kind
    /\ ParseTime(doc.time_str) = <<req.time_value.hh, req.time_value.mm>>
    /\ req.kind = "once" =>
          /\ doc.date.t = "str"
          /\ doc.date.parts =
                <<IntPart(req.date_value.y), IntPart(req.date_value.m), IntPart(req.date_value.d)>>
    /\ req.kind = "weekly" =>
          /\ doc.weekdays.t = "list"
          /\ doc.weekdays.days = (IF req.weekdays.none THEN {} ELSE req.weekdays.days)
    /\ doc.is_active
    /\ doc.last_run_at = BNull

\* C11: right after create_schedule returned an id for device d, list_schedules(d)
\* (the store reached) holds a record with the inputs of the request, is_active
\* true and last_run_at null; and a list_schedules(d) result never holds a
\* schedule of another device.
C11_CreatedScheduleListed ==
    /\ (view.op = "create" /\ view.ret = "id") =>
          LET listed == list_schedules(view.device, "ok")
          IN  /\ \E k \in 1..Len(listed) : ShowsRequest(listed[k], view.device, view.req)
              /\ \A k \in 1..Len(listed) : listed[k].device_id = view.device
    /\ (view.op = "list" /\ view.device \in Devices) =>
          \A k \in 1..Len(view.result) : view.result[k].device_id = view.device

\* C11 witness: a schedule was just created for one device while the store
\* holds a schedule of the other
C11_Witness ==
    /\ view.op = "create" /\ view.ret = "id"
    /\ \E i \in DOMAIN store : store[i].device_id # view.device

\* the reference tariff: the flat rate up to 50 units, otherwise every band of
\* the table from zero, each as wide as it is
Bands ==
    << <<75000, 5260>>, <<125000, 7200>>, <<100000, 7590>>, <<100000, 8020>>,
       <<200000, 12670>> >>

RECURSIVE BandWalk(_, _, _)
BandWalk(k, from, u) ==
    IF k > Len(Bands) THEN Times(Max2(u - from, 0), 14610)
    ELSE Plus(Times(Min2(Max2(u - from, 0), Bands[k][1]), Bands[k][2]),
              BandWalk(k + 1, from + Bands[k][1], u))

Tariff(e) ==
    LET u == Max2(e, 0)
    IN  IF u <= 50000 THEN Times(u, 4633) ELSE BandWalk(1, 0, u)

\* the hundredths nearest to an amount: two of them for an exact half
Nearest(x) ==
    IF x.f > 5000 THEN {x.c + 1} ELSE IF x.f < 5000 THEN {x.c} ELSE {x.c, x.c + 1}

\* C12: for energies a <= b, on either side of the 50-unit threshold and of
\* every slab boundary, bill(a) <= bill(b).
C12_BillMonotone ==
    (view.op = "bill" /\ view.a <= view.b) => view.ra <= view.rb

\* C12 witness: the two energies lie on either side of the 50-unit threshold
C12_Witness ==
    /\ view.op = "bill"
    /\ view.a = FlatLimit /\ view.b > FlatLimit
    /\ view.ra < view.rb

\* C13: bill(e) is the reference tariff of max(e, 0) rounded to 2 decimals;
\* bill(50) = 50 * 4.633 = 231.65, bill(50.01) = 263.05 (the slab walk of
\* 50.01, not 231.65 + 0.01 * 5.26), bill(-5) = bill(0) = 0.
C13_BillIsReferenceTariff ==
    view.op = "bill" =>
        /\ view.ra \in Nearest(Tariff(view.a))
        /\ view.a = 50000 => view.ra = 23165
        /\ view.a = 50010 => view.ra = 26305
        /\ view.a \in {-5000, 0} => view.ra = 0

\* C13 witness: 50.01 units have been billed
C13_Witness ==
    view.op = "bill" /\ view.a = 50010 /\ view.ra = 26305

\* the energies that occur in a frame
EnergiesIn(df) == {df[k].energy_kWh.v : k \in {j \in 1..Len(df) : df[j].energy_kWh.has}}

\* the same rows in another order
Reorderings(df) ==
    {[k \in 1..Len(df) |-> df[f[k]]] :
        f \in {g \in [1..Len(df) -> 1..Len(df)] : \A i, j \in 1..Len(df) : i # j => g[i] # g[j]}}

\* C14: the units of a window are the largest cumulative energy minus the
\* smallest, the same in whatever order the readings come, never negative,
\* and 0 without readings or without the energy field.
C14_UnitsAreMaxMinusMin ==
    view.op = "units" =>
        /\ EnergiesIn(view.df) = {} => view.units = 0
        /\ EnergiesIn(view.df) # {} =>
              \E hi \in EnergiesIn(view.df) : \E lo \in EnergiesIn(view.df) :
                  /\ \A e \in EnergiesIn(view.df) : lo <= e /\ e <= hi
                  /\ view.units = hi - lo
        /\ view.units >= 0
        /\ \A other \in Reorderings(view.df) : units_between(other) = view.units

\* C14 witness: a frame whose energies are not in ascending order and that
\* has a row without the field
C14_Witness ==
    /\ view.op = "units"
    /\ Len(view.df) = 3
    /\ view.df[1].energy_kWh = Val(50010)
    /\ view.df[2].energy_kWh = NoValue
    /\ view.df[3].energy_kWh = Val(1200)
    /\ view.units = 48810

\* a naive UTC datetime read on the local (UTC+6) clock
OnLocalClock(x) == Stamp(x.min + 6 * 60, x.us)

\* the local day number of a naive UTC datetime
LocalDay(x) == OnLocalClock(x).min \div (24 * 60)

\* largest minus smallest cumulative energy of a set of readings, 0 for none
Span(rs) ==
    IF rs = {} THEN 0
    ELSE LET es == {r.energy_kWh.v : r \in rs}
         IN  (CHOOSE hi \in es : \A e \in es : e <= hi)
               - (CHOOSE lo \in es : \A e \in es : lo <= e)

\* the stored readings that were stamped on the local day of now
OfToday(d, nw) == {r \in readings[d] : LocalDay(r.timestamp) = nw.min \div (24 * 60)}

\* the stored readings stamped from local midnight of day 1 of the month of
\* now up to, and not including, local midnight of day 1 of the next month
OfThisMonth(d, nw) ==
    {r \in readings[d] :
        \E y \in Years : \E m \in 1..12 :
            LET first == DaysFromCivil(y, m, 1)
                next  == first + DaysInMonth(y, m)
            IN  /\ first <= nw.min \div (24 * 60) /\ nw.min \div (24 * 60) < next
                /\ first <= LocalDay(r.timestamp) /\ LocalDay(r.timestamp) < next}

\* C15: today's consumption counts the readings of the closed local day,
\* the one stamped 23:59:59.999999 included; this month's consumption counts
\* the readings of the half-open local month, the one stamped at local
\* midnight of day 1 of the next month excluded.
C15_DayClosedMonthHalfOpen ==
    view.op = "daily_monthly" =>
        /\ view.d_units = Span(OfToday(view.device, view.now))
        /\ view.m_units = Span(OfThisMonth(view.device, view.now))

\* C16: the month window starts at local midnight of day 1 of the month of
\* now and ends at local midnight of day 1 of the following month (1 January
\* of the next year for December), both as naive UTC.
C16_MonthWindow ==
    view.op = "daily_monthly" =>
        \E y \in Years : \E m \in 1..12 :
            LET first == DaysFromCivil(y, m, 1)
                next  == IF m = 12 THEN DaysFromCivil(y + 1, 1, 1)
                         ELSE DaysFromCivil(y, m + 1, 1)
                today == view.now.min \div (24 * 60)
            IN  /\ first <= today /\ today < next
                /\ next - first = DaysInMonth(y, m)
                /\ OnLocalClock(view.m_start) = Stamp(first * 24 * 60, 0)
                /\ OnLocalClock(view.m_end) = Stamp(next * 24 * 60, 0)

\* C16 witness: now is in December
C16_Witness ==
    /\ view.op = "daily_monthly"
    /\ view.now = LocalStamp(2023, 12, 31, 23, 59, 59999999)
    /\ OnLocalClock(view.m_end) = LocalStamp(2024, 1, 1, 0, 0, 0)

\* C17: the day window starts at local midnight of the local date of now
\* minus 6 hours and ends at local 23:59:59.999999 of that date minus 6
\* hours, and now as naive UTC lies within it, also before 06:00 local.
C17_DayWindow ==
    view.op = "daily_monthly" =>
        LET today == view.now.min \div (24 * 60)
            utc   == Stamp(view.now.min - 6 * 60, view.now.us)
        IN  /\ view.day_start = Stamp(today * 24 * 60 - 6 * 60, 0)
            /\ view.day_end = Stamp(today * 24 * 60 + 23 * 60 + 59 - 6 * 60, 59999999)
            /\ Leq(view.day_start, utc) /\ Leq(utc, view.day_end)

\* C17 witness: now is before 06:00 local, so its UTC date is the day before
C17_Witness ==
    /\ view.op = "daily_monthly"
    /\ view.now = LocalStamp(2024, 1, 31, 3, 0, 0)
    /\ view.day_start.min \div (24 * 60) # view.now.min \div (24 * 60)

\* the devices of a list
Listed(dev_ids) == {dev_ids[k] : k \in 1..Len(dev_ids)}

\* the sum of f over the set S
RECURSIVE SumOver(_, _)
SumOver(S, f) ==
    IF S = {} THEN 0
    ELSE LET x == CHOOSE y \in S : TRUE IN f[x] + SumOver(S \ {x}, f)

\* what a device may show now: the power (0 when it has none) and the voltage
\* of a stored reading that no other reading of the device is later than;
\* no power and no voltage when nothing is stored
Shown(d) ==
    IF readings[d] = {} THEN {[p |-> 0, v |-> NoValue]}
    ELSE {[p |-> IF r.power.has THEN r.power.v ELSE 0, v |-> r.voltage] :
             r \in {x \in readings[d] :
                      ~ \E o \in readings[d] : (Leq(x.timestamp, o.timestamp) /\ x.timestamp # o.timestamp)}}

\* C18: with storage answering, the totals give as power the sum over the
\* listed devices of the power of each device's most recent reading (0 for a
\* device without readings) and as voltage the largest of the devices' most
\* recent voltages, 0 when no device has one.
C18_PowerSumVoltageMax ==
    (view.op = "totals" /\ \A d \in Listed(view.devices) : view.st[d] = "ok") =>
        \E shown \in [Devices -> UNION {Shown(d) : d \in Devices}] :
            /\ \A d \in Devices : shown[d] \in Shown(d)
            /\ LET L  == Listed(view.devices)
                   vs == {shown[d].v.v : d \in {x \in L : shown[x].v.has}}
               IN  /\ view.power = SumOver(L, [d \in Devices |-> shown[d].p])
                   /\ view.voltage = IF vs = {} THEN 0
                                     ELSE CHOOSE hi \in vs : \A v \in vs : v <= hi

\* C18 witness: two devices, each with a most recent reading that has power
\* and voltage, the voltages different: the sum, the average and the maximum
\* of the voltages are three different numbers
C18_Witness ==
    /\ view.op = "totals"
    /\ view.devices = <<"plug1", "plug2">>
    /\ \A d \in Devices :
          /\ view.st[d] = "ok"
          /\ view.latest[d] # <<>>
          /\ view.latest[d][1].power.has /\ view.latest[d][1].power.v > 0
          /\ view.latest[d][1].voltage.has /\ view.latest[d][1].voltage.v > 0
    /\ view.latest["plug1"][1].voltage # view.latest["plug2"][1].voltage
    /\ view.power = view.latest["plug1"][1].power.v + view.latest["plug2"][1].power.v

\* the consumption of a device today and this month: largest minus smallest
\* cumulative energy of its readings of the local day, of the local month
UnitsToday(d) == Span(OfToday(d, view.now))
UnitsMonth(d) == Span(OfThisMonth(d, view.now))

\* the bills a sum of per-device bills may come to (units[d] billed each)
PerDeviceBills(L, units) ==
    {SumOver(L, [d \in Devices |-> bd_domestic_bill(units[d], ups[d])]) :
        ups \in [Devices -> BOOLEAN]}

\* the combined total is beyond a tariff boundary none of the devices is beyond
Crosses(L, units, boundaries) ==
    \E b \in boundaries :
        /\ SumOver(L, units) > b
        /\ \A d \in L : units[d] <= b

\* the cost is the bill of the combined consumption
BilledOnce(cost, L, units) ==
    \E up \in BOOLEAN : cost = bd_domestic_bill(SumOver(L, units), up)

NothingFrom(d, st, start, end) ==
    \/ st \in {"no_client", "error"}
    \/ ~ \E r \in readings[d] : Leq(start, r.timestamp) /\ Leq(r.timestamp, end)

\* C20: when storage is unreachable, a query fails or a device has no
\* readings in the window, the consumption and bills of a device, the totals
\* of the building and the time series come back as zeros or as an empty
\* series, and none of the three raises to its caller.
C20_MissingDataNeverFails ==
    /\ (view.op \in {"daily_monthly", "totals", "series"} => ~view.raised)
    /\ (view.op = "daily_monthly" =>
          /\ (NothingFrom(view.device, view.st, view.day_start, view.day_end)
                 => (view.d_units = 0 /\ view.d_cost = 0))
          /\ (NothingFrom(view.device, view.st_m, view.m_start, view.m_end)
                 => (view.m_units = 0 /\ view.m_cost = 0)))
    /\ (view.op = "totals" =>
          LET L == Listed(view.devices)
              today == Stamp((view.now.min \div (24 * 60)) * 24 * 60 - 6 * 60, 0)
              month == Stamp(DaysFromCivil(2024, 1, 1) * 24 * 60 - 6 * 60, 0)
          IN  /\ ((\A d \in L : view.st[d] # "ok" \/ readings[d] = {})
                     => (view.power = 0 /\ view.voltage = 0))
              /\ ((\A d \in L : NothingFrom(d, view.st[d], today,
                                             Stamp(today.min + 24 * 60 - 1, 59999999)))
                     => (view.kwh_today = 0 /\ view.bill_today = 0))
              /\ ((\A d \in L : NothingFrom(d, view.st_m[d], month,
                                             Stamp(month.min + 31 * 24 * 60 - 1, 59999999)))
                     => (view.kwh_month = 0 /\ view.bill_month = 0)))
    /\ (view.op = "series" =>
          ((\A d \in Listed(view.devices) : NothingFrom(d, view.st[d], view.start, view.end))
              => view.out = <<>>))

\* C20 witness: both devices have readings; the queries of one fail and the
\* other is asked without a client, and the totals are zeros
C20_Witness ==
    /\ view.op = "totals"
    /\ view.devices = <<"plug1", "plug2">>
    /\ view.st = [d \in Devices |-> IF d = "plug1" THEN "error" ELSE "no_client"]
    /\ \A d \in Devices : Cardinality(readings[d]) = 2
    /\ ~view.raised
    /\ view.power = 0 /\ view.voltage = 0
    /\ view.kwh_today = 0 /\ view.bill_today = 0
    /\ view.kwh_month = 0 /\ view.bill_month = 0


\* C21: today's units of a device are the largest minus the smallest
\* cumulative energy of exactly the readings stored inside the day window and
\* the cost is the bill of these units: four readings of today at 100.0,
\* 100.0, 103.5 and 103.5 kWh give 3.5 units and a cost of 16.22.
C21_BillToday ==
    view.op = "daily_monthly" =>
        LET today == OfToday(view.device, view.now)
        IN  /\ view.d_units = Span(today)
            /\ view.d_cost \in Nearest(Tariff(view.d_units))
            /\ ( /\ Cardinality(today) = 4
                 /\ Cardinality({r \in today : r.energy_kWh = Val(100000)}) = 2
                 /\ Cardinality({r \in today : r.energy_kWh = Val(103500)}) = 2 )
               => (view.d_units = 3500 /\ view.d_cost = 1622)

\* C21 witness: two readings of today at 100.0 kWh and one at 103.5 kWh are
\* stored next to a reading of the evening before at 90.0 kWh
C21_Witness ==
    /\ view.op = "daily_monthly"
    /\ Cardinality(OfToday("plug1", view.now)) = 3
    /\ \E r \in readings["plug1"] : r \notin OfToday("plug1", view.now) /\ r.energy_kWh = Val(90000)
    /\ view.d_units = 3500
    /\ view.d_cost = 1622


\* the due condition of a ONCE schedule as a scan with clock reading nl reads it
OnceDue(doc, nl) ==
    /\ Instant(nl) >= Instant(Occurrence(doc))
    /\ doc.last_run_at = BNull \/ doc.last_run_at.utc < Instant(Occurrence(doc))

\* C22: a call of run_due_schedules sends the command of an active ONCE
\* schedule it read exactly when its clock reading is at or after the
\* occurrence and the marker is null or before the occurrence: never before
\* the occurrence, and at the first call at or after it however late, also
\* for a schedule created with a past date or switched on after its
\* occurrence.
C22_OnceFiresIffDue ==
    [][Ends(1) =>
          \A k \in 1..Len(docs[1]) :
              docs[1][k].kind = "once" =>
                  (docs[1][k].id \in trail[1].attempted
                      <=> OnceDue(docs[1][k], now_local[1]))]_vars


\* the step is invocation p sending the command of the schedule it is at
Sends(p) == pc[p] = "command" /\ pc'[p] = "log"

\* C23: a call of run_due_schedules sends the command of a WEEKLY schedule
\* only if the weekday of its local date is one of the schedule's weekdays and
\* its clock is at or after timeOfDay on that date; no command is ever
\* counted for a day that is not one of the weekdays, so an occurrence that
\* no scan met on its day is not made up for on a following day.
C23_WeeklyOnlyOnItsDay ==
    [][/\ (Sends(1) /\ CurDoc(1).kind = "weekly") => WeeklyDueAt(CurDoc(1), now_local[1])
       /\ \A i \in DOMAIN store' : \A d \in Days :
            (store'[i].kind = "weekly" /\ Weekday(d) \notin store'[i].weekdays.days)
                => fires'[i][d] = 0]_vars

\* C23 witness: a scan of Tuesday is at a schedule for Mondays at 09:00 that
\* no scan has fired, and passes it over
C23_Witness ==
    /\ pc[1] = "eval"
    /\ DateOf(now_local[1]) = Day0 + 1
    /\ CurDoc(1).kind = "weekly"
    /\ CurDoc(1).weekdays.days = {0}
    /\ CurDoc(1).time_str = strftime_HM(TimeValue(9, 0))
    /\ CurDoc(1).last_run_at = BNull
    /\ TotalFires(CurDoc(1).id) = 0
    /\ EvalDoc(CurDoc(1), now_local[1]) = "skip"

\* C24: once a WEEKLY schedule has a command on local date D, no call of
\* run_due_schedules whose local date is D sends another one, whatever its
\* timeOfDay is changed to in between.
C24_TimeChangeNoSecondFiring ==
    [][\A i \in DOMAIN store : \A d \in Days :
          (store[i].kind = "weekly" /\ fires[i][d] >= 1) => fires'[i][d] = fires[i][d]]_vars


\* the stored time_str is not two colon-separated integers within 0..23 and 0..59
MalformedTime(doc) ==
    ~ ( /\ doc.time_str.t = "str"
        /\ Len(doc.time_str.parts) = 2
        /\ AllInt(doc.time_str.parts)
        /\ doc.time_str.parts[1].v \in 0..23
        /\ doc.time_str.parts[2].v \in 0..59 )

\* the same document with 00:00 for its time of day
AtMidnight(doc) == [doc EXCEPT !.time_str = strftime_HM(TimeValue(0, 0))]

\* C25: a schedule whose stored timeOfDay is malformed is treated by the
\* due-check as if its timeOfDay were 00:00, ONCE and WEEKLY alike: the call
\* of run_due_schedules does not end in an exception at it, and it sends the
\* schedule's command exactly when the schedule with 00:00 would be due.
C25_MalformedTimeIsMidnight ==
    [][Ends(1) =>
          \A k \in 1..Len(docs[1]) :
              MalformedTime(docs[1][k]) =>
                  /\ scan_result'[1] # Raised(docs[1][k].id)
                  /\ docs[1][k].id \in trail[1].attempted
                        <=> EvalDoc(AtMidnight(docs[1][k]), now_local[1]) = "fire"]_vars


\* invocations that have sent a command for schedule i and not yet logged it
PendingLogs(i) ==
    Cardinality({p \in Scanners : pc[p] = "log" /\ CurDoc(p).id = i})

\* invocation p passes the logging step of _run_action
Logs(p) == pc[p] = "log" /\ pc'[p] = "marker"

\* C26 as stated: the execution log of every schedule has exactly one entry
\* for each command attempt made for it (attempts whose logging step is still
\* to come set aside).
C26_LogsEqualAttempts ==
    \A i \in Ids : Len(logs[i]) + PendingLogs(i) = TotalFires(i)

\* C26: every firing passes the logging step once, whether the command
\* succeeded or failed; the step either appends one entry carrying the
\* schedule, device, action and the command's result (the error on failure)
\* or, when the insert fails, appends nothing; nothing else writes the log,
\* so the entries of a schedule never outnumber its command attempts.
C26_OneLogStepPerAttempt ==
    [][/\ \A p \in Scanners : Logs(p) =>
            \/ logs' = logs
            \/ logs' = [logs EXCEPT ![CurDoc(p).id] =
                            Append(@, LogEntry(CurDoc(p), res[p]))]
       /\ logs' # logs => \E p \in Scanners : Logs(p)
       /\ \A p \in Scanners : Sends(p) => pc'[p] = "log"
       /\ \A i \in Ids : Len(logs'[i]) + PendingLogs(i)' <= TotalFires(i)']_vars

\* C26 witness: two commands were attempted for a schedule, the logging steps
\* of both are over, and the log holds one entry, that of a failed command.
C26_Witness ==
    \E i \in Ids :
        /\ TotalFires(i) = 2
        /\ PendingLogs(i) = 0
        /\ Len(logs[i]) = 1
        /\ logs[i][1].result = "error"
        /\ logs[i][1].schedule_id = i


\* invocation p passes the marker write that follows _run_action
Marks(p) == pc[p] = "marker" /\ pc'[p] # "marker"

\* C27: while every write of last_run_at fails, each call of run_due_schedules
\* made at or after the occurrence of a ONCE schedule sends a command for it:
\* the marker stays null, each firing attempts the write again, the failure
\* is swallowed and the call returns normally.
C27_FailedMarkerFiresEveryScan ==
    [][/\ Ends(1) =>
            /\ scan_result'[1] = Returned
            /\ \A k \in 1..Len(docs[1]) :
                  Instant(now_local[1]) >= Instant(Occurrence(docs[1][k]))
                      => docs[1][k].id \in trail[1].attempted
       /\ Sends(1) => pc'[1] = "log"
       /\ Logs(1) => pc'[1] = "marker"
       /\ Marks(1) => store' = store
       /\ \A i \in DOMAIN store' : store'[i].last_run_at = BNull]_vars

\* C27 witness: three commands have been sent for one ONCE schedule, whose
\* marker is still null, and the invocation that sent the third has returned.
C27_Witness ==
    \E i \in DOMAIN store :
        /\ store[i].kind = "once"
        /\ store[i].last_run_at = BNull
        /\ TotalFires(i) >= 3
        /\ pc[1] = "idle"
        /\ scan_result[1] = Returned


\* C28: an invocation decides on the documents it read at its start and
\* nothing makes it look at the collection again: the snapshot stays as read
\* while the invocation runs, and a document the snapshot shows as due is
\* sent its command whatever marker another invocation has written meanwhile.
\* Two overlapping invocations that both read a null marker therefore both
\* send the command for the same occurrence.
C28_SnapshotDecides ==
    [][\A p \in Scanners :
          /\ (pc[p] # "idle" /\ pc'[p] # "idle") => docs'[p] = docs[p]
          /\ ( /\ pc[p] = "eval" /\ pc'[p] # "eval"
               /\ EvalDoc(docs[p][idx[p]], now_local[p]) = "fire" )
                => pc'[p] = "command"
          /\ Sends(p) => fires'[docs[p][idx[p]].id][DateOf(now_local[p])]
                            = fires[docs[p][idx[p]].id][DateOf(now_local[p])] + 1]_vars

\* C28 witness: both invocations have sent the command for the one occurrence
\* of the same ONCE schedule, and neither has written last_run_at yet.
C28_Witness ==
    \E i \in DOMAIN store :
        /\ store[i].kind = "once"
        /\ store[i].last_run_at = BNull
        /\ TotalFires(i) = 2
        /\ \A p \in Scanners :
              /\ pc[p] \in {"log", "marker"}
              /\ docs[p][idx[p]].id = i
              /\ docs[p][idx[p]].last_run_at = BNull
              /\ i \in trail[p].attempted


\* C29: every record in the store, all of them written by create_schedule,
\* satisfies the data model: a ONCE record has a date and no weekdays, a
\* WEEKLY record has a non-empty list of weekdays and no date.
C29_PersistedRecordsValid ==
    \A i \in DOMAIN store :
        /\ store[i].kind = "once" =>
              store[i].date.t = "str" /\ store[i].weekdays = AbsentWeekdays
        /\ store[i].kind = "weekly" =>
              /\ store[i].weekdays.t = "list" /\ store[i].weekdays.days # {}
              /\ store[i].date = AbsentField


\* the cumulative energies of a frame in the order of its rows (by timestamp),
\* the rows without a value left out
HasEnergy(r) == r.energy_kWh.has
CounterValues(df) ==
    LET rows == SelectSeq(df, HasEnergy)
    IN  [k \in 1..Len(rows) |-> rows[k].energy_kWh.v]

\* the energy the counter saw consumed: the sum of its rises from one reading
\* to the next
RECURSIVE Rises(_, _)
Rises(es, k) ==
    IF k >= Len(es) THEN 0
    ELSE (IF es[k + 1] > es[k] THEN es[k + 1] - es[k] ELSE 0) + Rises(es, k + 1)

\* the counter drops from one reading to the next somewhere in the frame
HasReset(es) == \E k \in 1..(Len(es) - 1) : es[k + 1] < es[k]

\* some smallest reading of the frame comes no later than some largest one
LowBeforeHigh(es) ==
    \E i, j \in 1..Len(es) :
        /\ i <= j
        /\ \A k \in 1..Len(es) : es[i] <= es[k] /\ es[k] <= es[j]

\* C30 as stated: for a frame in which the counter resets, the units are at
\* most the sum of the counter's rises between consecutive readings.
C30_ResetNeverOverCounts ==
    (view.op = "units" /\ HasReset(CounterValues(view.df)))
        => view.units <= Rises(CounterValues(view.df), 1)

\* C30: for a frame in which the counter resets, the units are at most the
\* sum of the counter's rises whenever a smallest reading comes before a
\* largest one; a frame of a reading followed by a lower one (the largest
\* first) is counted as the whole drop although the counter never rose.
C30_ResetOverCountsOnlyHighFirst ==
    (view.op = "units" /\ HasReset(CounterValues(view.df))) =>
        LET es == CounterValues(view.df)
        IN  /\ LowBeforeHigh(es) => view.units <= Rises(es, 1)
            /\ Len(es) = 2 => (view.units = es[1] - es[2] /\ Rises(es, 1) = 0)

\* C30 witness: the units of a frame whose counter rose, dropped and stands
\* below its largest reading at the end, the smallest reading being the first.
C30_Witness ==
    /\ view.op = "units"
    /\ Len(CounterValues(view.df)) = 3
    /\ HasReset(CounterValues(view.df))
    /\ LowBeforeHigh(CounterValues(view.df))
    /\ CounterValues(view.df)[1] < CounterValues(view.df)[3]
    /\ view.units > 0
    /\ view.units <= Rises(CounterValues(view.df), 1)


\* the readings of device d the series was asked for: those storage returned
\* for the window of the request
Reported(d) ==
    IF view.st[d] # "ok" THEN {}
    ELSE {r \in readings[d] : /\ Leq(bson_ms(view.start), r.timestamp)
                              /\ Leq(r.timestamp, bson_ms(view.end))}

\* the bucket of a reading: the start of its interval
BucketOf(r) == r.timestamp.min - (r.timestamp.min % ResampleRule)

\* the readings of device d in bucket b that carry a value of the field
Carrying(d, col, b) == {r \in Reported(d) : BucketOf(r) = b /\ r[col].has}

\* the mean of the field over the readings of device d in bucket b
BucketMean(d, col, b) ==
    LET rs == Carrying(d, col, b)
    IN  Rat(SumOver(rs, [r \in rs |-> r[col].v]), Cardinality(rs))

\* the sum of the bucket means of the devices D
RECURSIVE MeansSum(_, _, _)
MeansSum(D, col, b) ==
    IF D = {} THEN Rat(0, 1)
    ELSE LET d == CHOOSE x \in D : TRUE
         IN  RatAdd(BucketMean(d, col, b), MeansSum(D \ {d}, col, b))

\* the listed devices with a value of the field in bucket b
Reporting(col, b) == {d \in Listed(view.devices) : Carrying(d, col, b) # {}}

\* C31: the series has one row, in time order, for exactly the buckets in
\* which a listed device has a reading; the row's power is the sum of the
\* bucket means of the devices that reported a power in it and its voltage
\* the mean of the bucket means of the devices that reported a voltage in it,
\* a device without a reading in the bucket adding nothing; no row is empty.
C31_BucketsOfReportingDevices ==
    view.op = "series" =>
        LET L == Listed(view.devices)
            B == UNION {{BucketOf(r) : r \in Reported(d)} : d \in L}
        IN  /\ {view.out[k].timestamp : k \in 1..Len(view.out)} = B
            /\ Len(view.out) = Cardinality(B)
            /\ \A k \in 1..(Len(view.out) - 1) :
                  view.out[k].timestamp < view.out[k + 1].timestamp
            /\ \A k \in 1..Len(view.out) :
                  LET row == view.out[k]
                      P   == Reporting("power", row.timestamp)
                      V   == Reporting("voltage", row.timestamp)
                      vs  == MeansSum(V, "voltage", row.timestamp)
                  IN  /\ row.power_sum_W.has \/ row.voltage_avg_V.has
                      /\ row.power_sum_W =
                            IF P = {} THEN NaN
                            ELSE Num(MeansSum(P, "power", row.timestamp))
                      /\ row.voltage_avg_V =
                            IF V = {} THEN NaN
                            ELSE Num(Rat(vs.n, vs.d * Cardinality(V)))

\* C31 witness: a series over two devices with two rows; in the first bucket
\* only one device reported, with two readings whose powers are averaged, and
\* in the second only the other did, with a voltage and no power.
C31_Witness ==
    /\ view.op = "series"
    /\ view.devices = <<"plug1", "plug2">>
    /\ Len(view.out) = 2
    /\ Reporting("power", view.out[1].timestamp) = {"plug1"}
    /\ Cardinality(Carrying("plug1", "power", view.out[1].timestamp)) = 2
    /\ Reported("plug2") # {}
    /\ Carrying("plug2", "voltage", view.out[1].timestamp) = {}
    /\ view.out[1].power_sum_W = Num(Rat(12550, 2))
    /\ Reporting("voltage", view.out[2].timestamp) = {"plug2"}
    /\ Reporting("power", view.out[2].timestamp) = {}
    /\ view.out[2].power_sum_W = NaN
    /\ view.out[2].voltage_avg_V = Num(Rat(22000, 1))


\* C32: a command is sent only for a schedule that is in the store and
\* switched on at the moment of the command: once update_schedule_active(id,
\* False) or delete_schedule(id) has completed, no invocation sends a command
\* for the schedule, the invocations that read it before the call included.
C32_NoCommandAfterSwitchOff ==
    [][\A p \in Scanners :
          Sends(p) => /\ docs[p][idx[p]].id \in DOMAIN store
                      /\ store[docs[p][idx[p]].id].is_active]_vars


\* C33: a call of run_due_schedules that finds no client, or whose query for
\* the active schedules raises PyMongoError, returns normally at once: no
\* command is sent, no log entry written, no last_run_at changed.
C33_UnreachableStoreDoesNothing ==
    [][/\ pc' = pc /\ pc[1] = "idle"
       /\ fires' = fires
       /\ logs' = logs
       /\ store' = store
       /\ scan_result' # scan_result => scan_result'[1] = Returned]_vars

\* C33 witness: a call has returned normally while an active schedule of the
\* store is due, and nothing has been sent for it.
C33_Witness ==
    /\ scan_result[1] = Returned
    /\ \E i \in DOMAIN store :
          /\ store[i].is_active
          /\ EvalDoc(store[i], NowLocal) = "fire"
          /\ TotalFires(i) = 0
          /\ logs[i] = <<>>
          /\ store[i].last_run_at = BNull


\* a call of update_schedule_active: the store changes between two scans
Switches == pc' = pc /\ store' # store /\ DOMAIN store' = DOMAIN store

\* C34: update_schedule_active changes is_active and nothing else, and with
\* schedules switched off and on between the scans a ONCE schedule that has
\* fired gets no further command and a WEEKLY schedule that has fired on a
\* day gets no further command on that day.
C34_SwitchingNeverRefires ==
    [][/\ Switches => \A i \in DOMAIN store :
                         [store'[i] EXCEPT !.is_active = store[i].is_active] = store[i]
       /\ \A i \in DOMAIN store : \A d \in Days :
             /\ (store[i].kind = "once" /\ TotalFires(i) >= 1) => fires'[i] = fires[i]
             /\ (store[i].kind = "weekly" /\ fires[i][d] >= 1)
                   => fires'[i][d] = fires[i][d]]_vars

\* the parts of C34 taken apart: the frame of the call and the ONCE schedule
C34_FrameAndOnce ==
    [][/\ Switches => \A i \in DOMAIN store :
                         [store'[i] EXCEPT !.is_active = store[i].is_active] = store[i]
       /\ \A i \in DOMAIN store :
             (store[i].kind = "once" /\ TotalFires(i) >= 1) => fires'[i] = fires[i]]_vars


\* C35: an invocation reaches the log append only from the command attempt
\* and the marker write only from the log append; last_run_at of a schedule
\* changes only by the marker write of an invocation that has attempted the
\* command for it in the same call, so a schedule with a marker has had a
\* command attempted, wherever the invocations stand or stop.
C35_CommandLogMarker ==
    [][/\ \A p \in Scanners :
             /\ (pc'[p] = "log" /\ pc[p] # "log") =>
                   /\ pc[p] = "command"
                   /\ docs[p][idx[p]].id \in trail'[p].attempted
                   /\ TotalFires(docs[p][idx[p]].id)' = TotalFires(docs[p][idx[p]].id) + 1
             /\ (pc'[p] = "marker" /\ pc[p] # "marker") => pc[p] = "log"
             /\ (pc[p] = "command" /\ pc'[p] # "command") => pc'[p] = "log"
             /\ (pc[p] = "log" /\ pc'[p] # "log") => pc'[p] = "marker"
       /\ \A i \in (DOMAIN store) \cap (DOMAIN store') :
             store'[i].last_run_at # store[i].last_run_at =>
                 \E p \in Scanners :
                     /\ Marks(p)
                     /\ docs[p][idx[p]].id = i
                     /\ i \in trail[p].attempted
                     /\ store'[i].last_run_at = bson_encode(now_local[p])
       /\ \A i \in DOMAIN store' :
             store'[i].last_run_at # BNull => TotalFires(i)' >= 1]_vars

\* C35 witness: one invocation stands between its command and its marker
\* write, the other has meanwhile sent the command again, written the marker
\* and returned.
C35_Witness ==
    \E i \in DOMAIN store : \E p, q \in Scanners :
        /\ pc[p] \in {"log", "marker"}
        /\ docs[p][idx[p]].id = i
        /\ docs[p][idx[p]].last_run_at = BNull
        /\ pc[q] = "idle"
        /\ scan_result[q] = Returned
        /\ TotalFires(i) = 2
        /\ store[i].last_run_at # BNull


\* C36 as stated: the day window lies within the month window of the same
\* now, and what daily_monthly_for and the totals return for today is at most
\* what they return for the month, units and cost.
C36_TodayWithinMonth ==
    /\ view.op = "daily_monthly" =>
          /\ Leq(view.m_start, view.day_start) /\ Leq(view.day_end, view.m_end)
          /\ view.d_units <= view.m_units
          /\ view.d_cost <= view.m_cost
    /\ view.op = "totals" =>
          /\ view.kwh_today <= view.kwh_month
          /\ view.bill_today <= view.bill_month

\* every query of the month was answered, or that of the day was not either
MonthAnswered ==
    IF view.op = "daily_monthly" THEN view.st_m = "ok" \/ view.st # "ok"
    ELSE \A d \in Listed(view.devices) : view.st_m[d] = "ok" \/ view.st[d] # "ok"

\* C36: the day window lies within the month window of the same now; today's
\* units and cost are at most the month's whenever the queries of the month
\* are answered, and when the query of the month fails after that of the day
\* was answered the month comes back as 0.
C36_TodayWithinAnsweredMonth ==
    /\ view.op = "daily_monthly" =>
          /\ Leq(view.m_start, view.day_start) /\ Leq(view.day_end, view.m_end)
          /\ MonthAnswered => (view.d_units <= view.m_units /\ view.d_cost <= view.m_cost)
          /\ view.st_m # "ok" => (view.m_units = 0 /\ view.m_cost = 0)
    /\ view.op = "totals" =>
          /\ MonthAnswered => /\ view.kwh_today <= view.kwh_month
                              /\ view.bill_today <= view.bill_month
          /\ (\A d \in Listed(view.devices) : view.st_m[d] # "ok")
                => (view.kwh_month = 0 /\ view.bill_month = 0)

\* C36 witness: totals of two devices with every query answered, in which
\* today's consumption is above 0 and below the month's, and so is the cost.
C36_Witness ==
    /\ view.op = "totals"
    /\ view.devices = <<"plug1", "plug2">>
    /\ \A d \in Devices : view.st[d] = "ok" /\ view.st_m[d] = "ok"
    /\ view.kwh_today > 0
    /\ view.kwh_today < view.kwh_month
    /\ view.bill_today < view.bill_month

=============================================================================
